---- MODULE Spec2Model ----
(***************************************************************************)
(* Model of the SentinelOps persistent memory store                        *)
(* (src-tauri/src/services/memory_service.rs) and of the memory commands   *)
(* that call the embedding provider (src-tauri/src/commands/memory.rs,     *)
(* src-tauri/src/commands/llm.rs), with the application state they share   *)
(* (src-tauri/src/services/mod.rs, src-tauri/src/commands/config.rs).      *)
(*                                                                         *)
(* Conventions                                                             *)
(*   Option<T>, SQL NULL : <<>> is None / NULL, <<v>> is Some(v).          *)
(*   Result<T, String>   : [ok |-> TRUE, val |-> v] or                     *)
(*                         [ok |-> FALSE, err |-> msg].                    *)
(*   text                : a sequence of lexemes (words and punctuation).  *)
(*   timestamps          : the value of the clock when Utc::now() is read. *)
(*   f64 scores          : integers in hundredths; the vectors used have   *)
(*                         cosines that are exact multiples of 0.01.       *)
(***************************************************************************)
EXTENDS Integers, Sequences, FiniteSets, Bags, TLC

VARIABLES
    memories,        \* table memories: rowid -> row
    memories_fts,    \* FTS5 index memories_fts: bag of indexed entries
    triggers,        \* names of the triggers present in sqlite_master
    memory_settings, \* table memory_settings: workspace_id -> row
    issued,          \* ids handed out so far by Uuid::new_v4()
    clock,           \* Utc::now()
    last,            \* the last MemoryManager call and what it returned
    pc,              \* per command handler: where it is in its command
    cmd,             \* per command handler: the command's local variables
    app              \* AppState: config, memory manager, trash, held guards

dbVars == <<memories, memories_fts, triggers, memory_settings>>
cmdVars == <<pc, cmd, app>>
vars == <<memories, memories_fts, triggers, memory_settings, issued, clock,
          last, pc, cmd, app>>

----------------------------------------------------------------------------
(* Bounds *)

MaxMemories == 2      \* create_memory calls explored in Spec
MaxSearchRows == 3    \* create_memory calls explored in SpecSearch
MaxClock == 1         \* the clock runs from 0 to MaxClock
MaxAccess == 1        \* increment_access explored up to this access_count
MaxListRows == 3      \* create_memory calls explored in SpecList
MaxRelevant == 2      \* get_relevant_memories commands explored per memory

----------------------------------------------------------------------------
(* Option and Result *)

None == <<>>

Some(v) == <<v>>

IsSome(o) == o # <<>>

Unwrap(o) == o[1]

UnwrapOr(o, d) == IF o = <<>> THEN d ELSE o[1]

\* the new value taken without .or(existing)
OptionOr_Replace(o, p) == o

OptionOr(o, p) == IF o # <<>> THEN o ELSE p

Ok(v) == [ok |-> TRUE, val |-> v]

Err(e) == [ok |-> FALSE, err |-> e]

----------------------------------------------------------------------------
(* Sequences *)

RECURSIVE SeqSum(_)
SeqSum(s) == IF s = <<>> THEN 0 ELSE Head(s) + SeqSum(Tail(s))

Range(s) == {s[i] : i \in DOMAIN s}

Truncate(s, n) == IF Len(s) <= n THEN s ELSE SubSeq(s, 1, n)

\* every enumeration of the finite set S, as a sequence without repetition
Orderings(S) ==
    {s \in [1..Cardinality(S) -> S] : \A i, j \in 1..Cardinality(S) : s[i] = s[j] => i = j}

SetMax(S) == CHOOSE x \in S : \A y \in S : y <= x

RECURSIVE ISqrt(_)
ISqrt(n) == IF n < 4 THEN (IF n = 0 THEN 0 ELSE 1)
            ELSE LET r == 2 * ISqrt(n \div 4)
                 IN IF (r + 1) * (r + 1) <= n THEN r + 1 ELSE r

----------------------------------------------------------------------------
(* serde_json for Vec<String> values: to_string and from_str *)

JsonPunct == {"[", "]", ","}

RECURSIVE JsonItems(_)
JsonItems(v) == IF v = <<>> THEN <<>>
                ELSE IF Len(v) = 1 THEN <<v[1]>>
                ELSE <<v[1], ",">> \o JsonItems(Tail(v))

ToJson(v) == <<"[">> \o JsonItems(v) \o <<"]">>

\* from_str(..).ok(): None when the text is not a JSON array of strings
FromJson(j) ==
    IF Len(j) < 2 \/ j[1] # "[" \/ j[Len(j)] # "]" THEN None
    ELSE LET body == SubSeq(j, 2, Len(j) - 1)
             wellFormed == /\ Len(body) = 0 \/ Len(body) % 2 = 1
                           /\ \A i \in DOMAIN body :
                                IF i % 2 = 1 THEN body[i] \notin JsonPunct
                                             ELSE body[i] = ","
         IN IF wellFormed
            THEN Some([k \in 1..((Len(body) + 1) \div 2) |-> body[2 * k - 1]])
            ELSE None

----------------------------------------------------------------------------
(* Embedding blobs: f32_vec_to_bytes and bytes_to_f32_vec.  A component is *)
(* an integer; its 32-bit pattern is written little-endian.                *)

LeBytes(u) == <<u % 256, (u \div 256) % 256, (u \div 65536) % 256, u \div 16777216>>

LeValue(b) == b[1] + 256 * b[2] + 65536 * b[3] + 16777216 * b[4]

\* to_le_bytes: a negative pattern is the complement of the pattern of -x-1
F32ToLeBytes(x) ==
    IF x >= 0 THEN LeBytes(x)
    ELSE [i \in 1..4 |-> 255 - LeBytes(0 - x - 1)[i]]

\* from_le_bytes
F32FromLeBytes(b) ==
    IF b[4] < 128 THEN LeValue(b)
    ELSE 0 - LeValue([i \in 1..4 |-> 255 - b[i]]) - 1

RECURSIVE f32_vec_to_bytes(_)
f32_vec_to_bytes(vec) ==
    IF vec = <<>> THEN <<>>
    ELSE F32ToLeBytes(Head(vec)) \o f32_vec_to_bytes(Tail(vec))

\* chunks(4), an incomplete trailing chunk is dropped
bytes_to_f32_vec(bytes) ==
    [k \in 1..(Len(bytes) \div 4) |-> F32FromLeBytes(SubSeq(bytes, 4 * k - 3, 4 * k))]

\* cosine_similarity, in hundredths
cosine_similarity(a, b) ==
    IF Len(a) # Len(b) \/ Len(a) = 0 THEN 0
    ELSE LET dot_product == SeqSum([i \in DOMAIN a |-> a[i] * b[i]])
             norm_a2 == SeqSum([i \in DOMAIN a |-> a[i] * a[i]])
             norm_b2 == SeqSum([i \in DOMAIN b |-> b[i] * b[i]])
         IN IF norm_a2 = 0 \/ norm_b2 = 0 THEN 0
            ELSE LET mag == ISqrt((dot_product * dot_product * 10000)
                                   \div (norm_a2 * norm_b2))
                 IN IF dot_product < 0 THEN 0 - mag ELSE mag

----------------------------------------------------------------------------
(* The database file: schema, triggers and statements                      *)

MemoryTypes == {"auto", "user", "conversation"}   \* CHECK(type IN (...))

TriggerNames == {"memories_ai", "memories_ad", "memories_au"}

DB == [memories |-> memories, memories_fts |-> memories_fts,
       triggers |-> triggers, memory_settings |-> memory_settings]

\* the values a trigger hands to memories_fts for a row
FtsEntry(rowid, row) ==
    [rowid |-> rowid, content |-> row.content, summary |-> row.summary, tags |-> row.tags]

\* rowid of an inserted row: one more than the largest rowid in the table
NextRowid(mem) == IF DOMAIN mem = {} THEN 1 ELSE SetMax(DOMAIN mem) + 1

\* an INSERT that evicts the oldest row of the workspace once the workspace
\* holds more than settings.max_memories rows
InsertRow_EvictsOverMax(db, row) ==
    LET rowid == NextRowid(db.memories)
        mem2 == [r \in DOMAIN db.memories \cup {rowid} |->
                    IF r = rowid THEN row ELSE db.memories[r]]
        own == {r \in DOMAIN mem2 : mem2[r].workspace_id = row.workspace_id}
        over == /\ row.workspace_id \in DOMAIN db.memory_settings
                /\ Cardinality(own) > db.memory_settings[row.workspace_id].max_memories
        gone == IF over THEN {CHOOSE r \in own : \A q \in own : r <= q} ELSE {}
    IN [db EXCEPT
          !.memories = [r \in DOMAIN mem2 \ gone |-> mem2[r]],
          !.memories_fts = (@ (+) SetToBag({FtsEntry(rowid, row)}))
                             (-) SetToBag({FtsEntry(r, mem2[r]) : r \in gone})]

\* INSERT INTO memories, with trigger memories_ai
InsertRow(db, row) ==
    LET rowid == NextRowid(db.memories)
    IN [db EXCEPT
          !.memories = [r \in DOMAIN db.memories \cup {rowid} |->
                          IF r = rowid THEN row ELSE db.memories[r]],
          !.memories_fts = IF "memories_ai" \in db.triggers
                           THEN @ (+) SetToBag({FtsEntry(rowid, row)})
                           ELSE @]

\* the rows that WHERE id = ? AND workspace_id = ? selects
RowsWhere(db, m, id) ==
    {r \in DOMAIN db.memories :
        db.memories[r].id = id /\ db.memories[r].workspace_id = m.workspace_id}

\* trigger memories_au without its 'delete' of the old values
UpdateRows_KeepsOldEntry(db, hit, new) ==
    LET mem2 == [r \in DOMAIN db.memories |-> IF r \in hit THEN new[r] ELSE db.memories[r]]
    IN [db |-> [db EXCEPT
                  !.memories = mem2,
                  !.memories_fts =
                      IF "memories_au" \in db.triggers
                      THEN @ (+) SetToBag({FtsEntry(r, mem2[r]) : r \in hit})
                      ELSE @],
        changes |-> Cardinality(hit)]

\* UPDATE memories SET ... on the rows hit, new[r] being the new values of
\* row r, with trigger memories_au
UpdateRows(db, hit, new) ==
    LET mem2 == [r \in DOMAIN db.memories |-> IF r \in hit THEN new[r] ELSE db.memories[r]]
    IN [db |-> [db EXCEPT
                  !.memories = mem2,
                  !.memories_fts =
                      IF "memories_au" \in db.triggers
                      THEN (@ (-) SetToBag({FtsEntry(r, db.memories[r]) : r \in hit}))
                             (+) SetToBag({FtsEntry(r, mem2[r]) : r \in hit})
                      ELSE @],
        changes |-> Cardinality(hit)]

\* DELETE FROM memories on the rows hit, with trigger memories_ad
DeleteRows(db, hit) ==
    [db |-> [db EXCEPT
               !.memories = [r \in DOMAIN db.memories \ hit |-> db.memories[r]],
               !.memories_fts =
                   IF "memories_ad" \in db.triggers
                   THEN @ (-) SetToBag({FtsEntry(r, db.memories[r]) : r \in hit})
                   ELSE @],
     changes |-> Cardinality(hit)]

\* the default settings row written by INSERT OR IGNORE INTO memory_settings
DefaultSettings(workspace_id, now) ==
    [workspace_id |-> workspace_id, auto_extract_enabled |-> 1,
     extraction_model |-> None,
     embedding_model |-> Some("openai/text-embedding-3-small"),
     max_memories |-> 1000, context_injection_count |-> 5,
     similarity_threshold |-> 70, created_at |-> now, updated_at |-> now]

----------------------------------------------------------------------------
(* MemoryManager                                                           *)

MemoryType_from_str(s) ==
    CASE s = "auto" -> "Auto"
      [] s = "user" -> "User"
      [] s = "conversation" -> "Conversation"
      [] OTHER -> "User"

\* the and_then of row_to_memory
ParseJsonColumn(col) == IF col = None THEN None ELSE FromJson(Unwrap(col))

row_to_memory(row) ==
    [id |-> row.id,
     workspace_id |-> row.workspace_id,
     content |-> row.content,
     summary |-> row.summary,
     memory_type |-> MemoryType_from_str(row.type),
     source_conversation_id |-> row.source_conversation_id,
     source_message_ids |-> ParseJsonColumn(row.source_message_ids),
     embedding_model |-> row.embedding_model,
     tags |-> ParseJsonColumn(row.tags),
     importance |-> row.importance,
     access_count |-> row.access_count,
     last_accessed_at |-> row.last_accessed_at,
     created_at |-> row.created_at,
     updated_at |-> row.updated_at,
     expires_at |-> row.expires_at,
     is_pinned |-> row.is_pinned # 0,
     metadata |-> ParseJsonColumn(row.metadata)]

\* Option<Vec<String>> -> Option<String> through serde_json::to_string
JsonColumn(o) == IF o = None THEN None ELSE Some(ToJson(Unwrap(o)))

\* the SELECT without its workspace_id condition
get_memory_AnyWorkspace(db, m, id) ==
    LET hit == {r \in DOMAIN db.memories : db.memories[r].id = id}
    IN IF hit = {} THEN Ok(None)
       ELSE Ok(Some(row_to_memory(db.memories[CHOOSE r \in hit : TRUE])))

get_memory(db, m, id) ==
    LET hit == RowsWhere(db, m, id)
    IN IF hit = {} THEN Ok(None)
       ELSE Ok(Some(row_to_memory(db.memories[CHOOSE r \in hit : TRUE])))

\* the INSERT into a table declared without CHECK(type IN (...))
create_memory_NoTypeCheck(db, m, input, id, now) ==
    LET row == [id |-> id,
                workspace_id |-> m.workspace_id,
                content |-> input.content,
                summary |-> input.summary,
                type |-> UnwrapOr(input.memory_type, "user"),
                source_conversation_id |-> input.source_conversation_id,
                source_message_ids |-> JsonColumn(input.source_message_ids),
                embedding |-> None,
                embedding_model |-> None,
                tags |-> JsonColumn(input.tags),
                importance |-> UnwrapOr(input.importance, 5),
                access_count |-> 0,
                last_accessed_at |-> None,
                created_at |-> now,
                updated_at |-> now,
                expires_at |-> None,
                is_pinned |-> IF UnwrapOr(input.is_pinned, FALSE) THEN 1 ELSE 0,
                metadata |-> JsonColumn(input.metadata)]
        db2 == InsertRow(db, row)
    IN [db |-> db2, res |-> Ok(Unwrap(get_memory(db2, m, id).val))]

\* id is the value of Uuid::new_v4(), now the value of Utc::now()
create_memory(db, m, input, id, now) ==
    LET memory_type == UnwrapOr(input.memory_type, "user")
        importance == UnwrapOr(input.importance, 5)
        is_pinned == UnwrapOr(input.is_pinned, FALSE)
        row == [id |-> id,
                workspace_id |-> m.workspace_id,
                content |-> input.content,
                summary |-> input.summary,
                type |-> memory_type,
                source_conversation_id |-> input.source_conversation_id,
                source_message_ids |-> JsonColumn(input.source_message_ids),
                embedding |-> None,
                embedding_model |-> None,
                tags |-> JsonColumn(input.tags),
                importance |-> importance,
                access_count |-> 0,
                last_accessed_at |-> None,
                created_at |-> now,
                updated_at |-> now,
                expires_at |-> None,
                is_pinned |-> IF is_pinned THEN 1 ELSE 0,
                metadata |-> JsonColumn(input.metadata)]
        constraintsHold == /\ memory_type \in MemoryTypes
                           /\ \A r \in DOMAIN db.memories : db.memories[r].id # id
    IN IF ~constraintsHold
       THEN [db |-> db, res |-> Err("Failed to create memory")]
       ELSE LET db2 == InsertRow(db, row)
                got == get_memory(db2, m, id)
            IN [db |-> db2,
                res |-> IF got.val = None THEN Err("Memory not found after creation")
                        ELSE Ok(Unwrap(got.val))]

\* a changed row loses its vector
update_memory_ClearsEmbedding(db, m, id, input, now) ==
    LET found == get_memory(db, m, id)
    IN IF found.val = None THEN [db |-> db, res |-> Err("Memory not found")]
       ELSE LET existing == Unwrap(found.val)
                content == UnwrapOr(input.content, existing.content)
                summary == OptionOr(input.summary, existing.summary)
                tags == OptionOr(input.tags, existing.tags)
                importance == UnwrapOr(input.importance, existing.importance)
                is_pinned == UnwrapOr(input.is_pinned, existing.is_pinned)
                metadata == OptionOr(input.metadata, existing.metadata)
                hit == RowsWhere(db, m, id)
                upd == UpdateRows(db, hit,
                          [r \in hit |-> [db.memories[r] EXCEPT
                                            !.content = content,
                                            !.summary = summary,
                                            !.tags = JsonColumn(tags),
                                            !.importance = importance,
                                            !.is_pinned = IF is_pinned THEN 1 ELSE 0,
                                            !.metadata = JsonColumn(metadata),
                                            !.embedding = None,
                                            !.embedding_model = None,
                                            !.updated_at = now]])
                got == get_memory(upd.db, m, id)
            IN [db |-> upd.db,
                res |-> IF got.val = None THEN Err("Memory not found after update")
                        ELSE Ok(Unwrap(got.val))]

update_memory(db, m, id, input, now) ==
    LET found == get_memory(db, m, id)
    IN IF found.val = None THEN [db |-> db, res |-> Err("Memory not found")]
       ELSE LET existing == Unwrap(found.val)
                content == UnwrapOr(input.content, existing.content)
                summary == OptionOr(input.summary, existing.summary)
                tags == OptionOr(input.tags, existing.tags)
                importance == UnwrapOr(input.importance, existing.importance)
                is_pinned == UnwrapOr(input.is_pinned, existing.is_pinned)
                metadata == OptionOr(input.metadata, existing.metadata)
                hit == RowsWhere(db, m, id)
                upd == UpdateRows(db, hit,
                          [r \in hit |-> [db.memories[r] EXCEPT
                                            !.content = content,
                                            !.summary = summary,
                                            !.tags = JsonColumn(tags),
                                            !.importance = importance,
                                            !.is_pinned = IF is_pinned THEN 1 ELSE 0,
                                            !.metadata = JsonColumn(metadata),
                                            !.updated_at = now]])
                got == get_memory(upd.db, m, id)
            IN [db |-> upd.db,
                res |-> IF got.val = None THEN Err("Memory not found after update")
                        ELSE Ok(Unwrap(got.val))]

\* Ok(true) whether or not a row went
delete_memory_AlwaysTrue(db, m, id) ==
    LET del == DeleteRows(db, RowsWhere(db, m, id))
    IN [db |-> del.db, res |-> Ok(TRUE)]

delete_memory(db, m, id) ==
    LET del == DeleteRows(db, RowsWhere(db, m, id))
    IN [db |-> del.db, res |-> Ok(del.changes > 0)]

\* the UPDATE without its embedding_model column
store_embedding_NoModel(db, m, memory_id, embedding, model, now) ==
    LET hit == RowsWhere(db, m, memory_id)
        upd == UpdateRows(db, hit,
                  [r \in hit |-> [db.memories[r] EXCEPT
                                    !.embedding = Some(f32_vec_to_bytes(embedding)),
                                    !.updated_at = now]])
    IN [db |-> upd.db, res |-> Ok("unit")]

\* the UPDATE also writing last_accessed_at
store_embedding_RecordsAccess(db, m, memory_id, embedding, model, now) ==
    LET hit == RowsWhere(db, m, memory_id)
        upd == UpdateRows(db, hit,
                  [r \in hit |-> [db.memories[r] EXCEPT
                                    !.embedding = Some(f32_vec_to_bytes(embedding)),
                                    !.embedding_model = Some(model),
                                    !.last_accessed_at = Some(now),
                                    !.updated_at = now]])
    IN [db |-> upd.db, res |-> Ok("unit")]

\* an upsert: a row is written for the id when the UPDATE finds none
store_embedding_Upsert(db, m, memory_id, embedding, model, now) ==
    LET hit == RowsWhere(db, m, memory_id)
        upd == UpdateRows(db, hit,
                  [r \in hit |-> [db.memories[r] EXCEPT
                                    !.embedding = Some(f32_vec_to_bytes(embedding)),
                                    !.embedding_model = Some(model),
                                    !.updated_at = now]])
        row == [id |-> memory_id, workspace_id |-> m.workspace_id, content |-> <<>>,
                summary |-> None, type |-> "user", source_conversation_id |-> None,
                source_message_ids |-> None,
                embedding |-> Some(f32_vec_to_bytes(embedding)),
                embedding_model |-> Some(model), tags |-> None, importance |-> 5,
                access_count |-> 0, last_accessed_at |-> None, created_at |-> now,
                updated_at |-> now, expires_at |-> None, is_pinned |-> 0,
                metadata |-> None]
    IN [db |-> IF hit = {} THEN InsertRow(db, row) ELSE upd.db, res |-> Ok("unit")]

store_embedding(db, m, memory_id, embedding, model, now) ==
    LET embedding_bytes == f32_vec_to_bytes(embedding)
        hit == RowsWhere(db, m, memory_id)
        upd == UpdateRows(db, hit,
                  [r \in hit |-> [db.memories[r] EXCEPT
                                    !.embedding = Some(embedding_bytes),
                                    !.embedding_model = Some(model),
                                    !.updated_at = now]])
    IN [db |-> upd.db, res |-> Ok("unit")]

\* the UPDATE writing a count computed from a value read at 0
increment_access_FromStaleRead(db, m, memory_id, now) ==
    LET hit == RowsWhere(db, m, memory_id)
        upd == UpdateRows(db, hit,
                  [r \in hit |-> [db.memories[r] EXCEPT
                                    !.access_count = 1,
                                    !.last_accessed_at = Some(now)]])
    IN [db |-> upd.db, res |-> Ok("unit")]

increment_access(db, m, memory_id, now) ==
    LET hit == RowsWhere(db, m, memory_id)
        upd == UpdateRows(db, hit,
                  [r \in hit |-> [db.memories[r] EXCEPT
                                    !.access_count = @ + 1,
                                    !.last_accessed_at = Some(now)]])
    IN [db |-> upd.db, res |-> Ok("unit")]

----------------------------------------------------------------------------
(* Search                                                                  *)

\* the FTS5 tokenizer keeps the words of a text column
FtsPunct == JsonPunct \cup {"\""}

Tokenize(text) == SelectSeq(text, LAMBDA x : x \notin FtsPunct)

ColumnTokens(col) == IF col = None THEN <<>> ELSE Tokenize(Unwrap(col))

EntryTokens(e) == Tokenize(e.content) \o ColumnTokens(e.summary) \o ColumnTokens(e.tags)

\* a MATCH expression the FTS5 parser accepts: one or more bare words
Fts5Accepts(query) == query # <<>> /\ \A i \in DOMAIN query : query[i] \notin FtsPunct

\* memories_fts MATCH query: every word of the query occurs in the entry
Matches(e, query) == Range(query) \subseteq Range(EntryTokens(e))

\* bm25(memories_fts), as an ordinal stand-in: the more occurrences of the
\* query's words, the lower (better) the value; always negative for a match
bm25(e, query) ==
    0 - Len(SelectSeq(EntryTokens(e), LAMBDA x : x \in Range(query)))

\* FROM memories_fts JOIN memories m ON memories_fts.rowid = m.rowid
\* WHERE memories_fts MATCH ?1 AND m.workspace_id = ?2
\* one hit per indexed copy of an entry
KeywordHits(db, m, query) ==
    {h \in UNION {{<<e, k>> : k \in 1..CopiesIn(e, db.memories_fts)} :
                        e \in BagToSet(db.memories_fts)} :
        /\ Matches(h[1], query)
        /\ h[1].rowid \in DOMAIN db.memories
        /\ db.memories[h[1].rowid].workspace_id = m.workspace_id}

\* the orders ORDER BY bm25(memories_fts) may deliver the hits in
KeywordOrders(db, m, query) ==
    {o \in Orderings(KeywordHits(db, m, query)) :
        \A i, j \in DOMAIN o : i < j => bm25(o[i][1], query) <= bm25(o[j][1], query)}

\* order is the order in which the statement delivers its rows
search_keyword(db, m, query, limit, order) ==
    IF ~Fts5Accepts(query)
    THEN Ok(<<>>)    \* the step error is an Err item, dropped by filter_map(|r| r.ok())
    ELSE Ok([i \in 1..(IF Len(order) <= limit THEN Len(order) ELSE limit) |->
                [memory |-> row_to_memory(db.memories[order[i][1].rowid]),
                 score |-> 0 - bm25(order[i][1], query),
                 match_type |-> "keyword"]])

\* WHERE workspace_id = ?1 AND embedding IS NOT NULL
SemanticRows(db, m) ==
    {r \in DOMAIN db.memories :
        /\ db.memories[r].workspace_id = m.workspace_id
        /\ db.memories[r].embedding # None}

\* results.sort_by(|a, b| b.score.partial_cmp(&a.score)): a stable sort
RECURSIVE SortByScoreDesc(_)
SortByScoreDesc(s) ==
    IF s = <<>> THEN <<>>
    ELSE LET rest == SortByScoreDesc(Tail(s))
             x == Head(s)
             \* x goes before the first element of rest that scores lower
             before == SelectSeq(rest, LAMBDA y : y.score > x.score)
             after == SelectSeq(rest, LAMBDA y : y.score <= x.score)
         IN before \o <<x>> \o after

\* the filter written as r.score > threshold
search_semantic_Strict(db, m, query_embedding, limit, threshold, order) ==
    LET scored == [i \in DOMAIN order |->
                     [memory |-> row_to_memory(db.memories[order[i]]),
                      score |-> cosine_similarity(query_embedding,
                                   bytes_to_f32_vec(Unwrap(db.memories[order[i]].embedding))),
                      match_type |-> "semantic"]]
        results == SelectSeq(scored, LAMBDA r : r.score > threshold)
    IN Ok(Truncate(SortByScoreDesc(results), limit))

\* order is the order in which the statement delivers its rows
search_semantic(db, m, query_embedding, limit, threshold, order) ==
    LET scored == [i \in DOMAIN order |->
                     [memory |-> row_to_memory(db.memories[order[i]]),
                      score |-> cosine_similarity(query_embedding,
                                   bytes_to_f32_vec(Unwrap(db.memories[order[i]].embedding))),
                      match_type |-> "semantic"]]
        results == SelectSeq(scored, LAMBDA r : r.score >= threshold)
    IN Ok(Truncate(SortByScoreDesc(results), limit))

\* no fallback once an embedding was supplied
search_hybrid_NoFallback(db, m, query, query_embedding, limit, threshold, semOrder, kwOrder) ==
    IF query_embedding # None
    THEN search_semantic(db, m, Unwrap(query_embedding), limit, threshold, semOrder)
    ELSE search_keyword(db, m, query, limit, kwOrder)

\* the keyword results appended to the semantic ones
search_hybrid_Merged(db, m, query, query_embedding, limit, threshold, semOrder, kwOrder) ==
    IF query_embedding # None
    THEN Ok(search_semantic(db, m, Unwrap(query_embedding), limit, threshold, semOrder).val
              \o search_keyword(db, m, query, limit, kwOrder).val)
    ELSE search_keyword(db, m, query, limit, kwOrder)

search_hybrid(db, m, query, query_embedding, limit, threshold, semOrder, kwOrder) ==
    LET semantic_results == search_semantic(db, m, Unwrap(query_embedding), limit, threshold, semOrder)
    IN IF query_embedding # None /\ semantic_results.val # <<>>
       THEN semantic_results
       ELSE search_keyword(db, m, query, limit, kwOrder)

----------------------------------------------------------------------------
(* list_memories                                                           *)

\* "pinned" taken as a value of column type
ListHits_PinnedAsType(db, m, filters) ==
    {r \in DOMAIN db.memories :
        /\ db.memories[r].workspace_id = m.workspace_id
        /\ filters.memory_type # None => db.memories[r].type = Unwrap(filters.memory_type)
        /\ filters.is_pinned # None =>
              db.memories[r].is_pinned = (IF Unwrap(filters.is_pinned) THEN 1 ELSE 0)}

ListHits(db, m, filters) ==
    {r \in DOMAIN db.memories :
        /\ db.memories[r].workspace_id = m.workspace_id
        /\ filters.memory_type # None =>
              IF Unwrap(filters.memory_type) = "pinned"
              THEN db.memories[r].is_pinned = 1
              ELSE db.memories[r].type = Unwrap(filters.memory_type)
        /\ filters.is_pinned # None =>
              db.memories[r].is_pinned = (IF Unwrap(filters.is_pinned) THEN 1 ELSE 0)}

\* does ORDER BY put row a strictly before row b
ListBefore(a, b, sort_by) ==
    LET accessed(x) == UnwrapOr(x.last_accessed_at, x.created_at)
    IN CASE sort_by = Some("importance") ->
              \/ a.importance > b.importance
              \/ a.importance = b.importance /\ a.created_at > b.created_at
         [] sort_by = Some("accessed") -> accessed(a) > accessed(b)
         [] OTHER -> a.created_at > b.created_at

ListOrders(db, m, filters) ==
    {o \in Orderings(ListHits(db, m, filters)) :
        \A i, j \in DOMAIN o :
            i < j => ~ListBefore(db.memories[o[j]], db.memories[o[i]], filters.sort_by)}

\* total taken from the page instead of the count query
list_memories_TotalIsPage(db, m, filters, order) ==
    LET limit == UnwrapOr(filters.limit, 100)
        offset == UnwrapOr(filters.offset, 0)
        page == IF offset >= Len(order) THEN <<>>
                ELSE Truncate(SubSeq(order, offset + 1, Len(order)), limit)
    IN Ok([memories |-> [i \in DOMAIN page |-> row_to_memory(db.memories[page[i]])],
           total |-> Len(page)])

\* order is the order in which the statement delivers the rows before
\* LIMIT and OFFSET apply
list_memories(db, m, filters, order) ==
    LET limit == UnwrapOr(filters.limit, 100)
        offset == UnwrapOr(filters.offset, 0)
        total == Cardinality(ListHits(db, m, filters))
        page == IF offset >= Len(order) THEN <<>>
                ELSE Truncate(SubSeq(order, offset + 1, Len(order)), limit)
    IN Ok([memories |-> [i \in DOMAIN page |-> row_to_memory(db.memories[page[i]])],
           total |-> total])

----------------------------------------------------------------------------
(* Settings, statistics and opening the store                              *)

\* the SELECT of get_settings read into a MemorySettings
get_settings(db, m) ==
    IF m.workspace_id \notin DOMAIN db.memory_settings
    THEN Err("Failed to get settings")
    ELSE LET row == db.memory_settings[m.workspace_id]
         IN Ok([workspace_id |-> row.workspace_id,
                auto_extract_enabled |-> row.auto_extract_enabled # 0,
                extraction_model |-> row.extraction_model,
                embedding_model |-> Unwrap(row.embedding_model),
                max_memories |-> row.max_memories,
                context_injection_count |-> row.context_injection_count,
                similarity_threshold |-> row.similarity_threshold,
                created_at |-> row.created_at,
                updated_at |-> row.updated_at])

\* the UPDATE writing the supplied values only, NULL for the absent ones
update_settings_NoCurrent(db, m, input, now) ==
    LET ws == m.workspace_id
        db2 == [db EXCEPT !.memory_settings[ws] =
                   [@ EXCEPT
                      !.auto_extract_enabled =
                          IF UnwrapOr(input.auto_extract_enabled, FALSE) THEN 1 ELSE 0,
                      !.extraction_model = input.extraction_model,
                      !.embedding_model = Some(UnwrapOr(input.embedding_model, "openai/text-embedding-3-small")),
                      !.max_memories = UnwrapOr(input.max_memories, 1000),
                      !.context_injection_count = UnwrapOr(input.context_injection_count, 5),
                      !.similarity_threshold = UnwrapOr(input.similarity_threshold, 70),
                      !.updated_at = now]]
    IN IF ~get_settings(db, m).ok THEN [db |-> db, res |-> get_settings(db, m)]
       ELSE [db |-> db2, res |-> get_settings(db2, m)]

update_settings(db, m, input, now) ==
    LET found == get_settings(db, m)
    IN IF ~found.ok THEN [db |-> db, res |-> found]
       ELSE LET current == found.val
                ws == m.workspace_id
                db2 == [db EXCEPT !.memory_settings[ws] =
                          [@ EXCEPT
                             !.auto_extract_enabled =
                                 IF UnwrapOr(input.auto_extract_enabled,
                                             current.auto_extract_enabled) THEN 1 ELSE 0,
                             !.extraction_model =
                                 OptionOr(input.extraction_model, current.extraction_model),
                             !.embedding_model =
                                 Some(UnwrapOr(input.embedding_model, current.embedding_model)),
                             !.max_memories =
                                 UnwrapOr(input.max_memories, current.max_memories),
                             !.context_injection_count =
                                 UnwrapOr(input.context_injection_count,
                                          current.context_injection_count),
                             !.similarity_threshold =
                                 UnwrapOr(input.similarity_threshold,
                                          current.similarity_threshold),
                             !.updated_at = now]]
            IN [db |-> db2, res |-> get_settings(db2, m)]

\* SELECT COUNT(*) FROM memories WHERE workspace_id = ?1 AND <cond>
CountWhere(db, m, rows) ==
    Cardinality({r \in rows : db.memories[r].workspace_id = m.workspace_id})

\* avg_importance is the exact quotient num / den (0 for an empty workspace)
get_stats(db, m) ==
    LET all == DOMAIN db.memories
        own == {r \in all : db.memories[r].workspace_id = m.workspace_id}
        ofType(t) == {r \in all : db.memories[r].type = t}
        ownSeq == CHOOSE o \in Orderings(own) : TRUE
    IN Ok([total_count |-> CountWhere(db, m, all),
           auto_count |-> CountWhere(db, m, ofType("auto")),
           user_count |-> CountWhere(db, m, ofType("user")),
           conversation_count |-> CountWhere(db, m, ofType("conversation")),
           pinned_count |-> CountWhere(db, m, {r \in all : db.memories[r].is_pinned = 1}),
           with_embeddings |-> CountWhere(db, m, {r \in all : db.memories[r].embedding # None}),
           avg_importance |->
               IF own = {} THEN [num |-> 0, den |-> 1]
               ELSE [num |-> SeqSum([i \in DOMAIN ownSeq |-> db.memories[ownSeq[i]].importance]),
                     den |-> Cardinality(own)]])

\* CREATE TRIGGER for the three triggers, whether or not they exist
CreateTriggers_Unchecked(db) ==
    IF db.triggers \cap TriggerNames # {}
    THEN [db |-> db, res |-> Err("Failed to create triggers")]
    ELSE [db |-> [db EXCEPT !.triggers = @ \cup TriggerNames], res |-> Ok("unit")]

\* the triggers are created when sqlite_master holds no trigger memories_ai;
\* CREATE TRIGGER fails on a name that exists
CreateTriggers(db) ==
    LET trigger_exists == "memories_ai" \in db.triggers
    IN IF trigger_exists THEN [db |-> db, res |-> Ok("unit")]
       ELSE IF db.triggers \cap TriggerNames # {}
       THEN [db |-> db, res |-> Err("Failed to create triggers")]
       ELSE [db |-> [db EXCEPT !.triggers = @ \cup TriggerNames], res |-> Ok("unit")]

\* INSERT OR REPLACE INTO memory_settings
InsertSettingsOrIgnore_Replace(db, m, now) ==
    [db EXCEPT !.memory_settings =
        [w \in DOMAIN @ \cup {m.workspace_id} |->
            IF w = m.workspace_id THEN DefaultSettings(w, now) ELSE @[w]]]

\* INSERT OR IGNORE INTO memory_settings (workspace_id, created_at, updated_at)
InsertSettingsOrIgnore(db, m, now) ==
    IF m.workspace_id \in DOMAIN db.memory_settings THEN db
    ELSE [db EXCEPT !.memory_settings =
             [w \in DOMAIN @ \cup {m.workspace_id} |->
                 IF w = m.workspace_id THEN DefaultSettings(w, now) ELSE @[w]]]

\* CREATE ... IF NOT EXISTS changes no table that exists; then the triggers,
\* then the settings row
init_database(db, m, now) ==
    LET t == CreateTriggers(db)
    IN IF ~t.res.ok THEN t
       ELSE [db |-> InsertSettingsOrIgnore(t.db, m, now), res |-> Ok("unit")]

\* MemoryManager::new for the manager m of a workspace root
MemoryManager_new(db, m, now) ==
    LET r == init_database(db, m, now)
    IN [db |-> r.db, res |-> IF r.res.ok THEN Ok(m) ELSE r.res]

----------------------------------------------------------------------------
(* Inputs                                                                  *)

WorkspaceIds == {"w1", "w2"}

\* two managers opened on two spellings of one directory: one database
\* file, two workspace ids
Managers == {[db_path |-> "memory.db", workspace_id |-> w] : w \in WorkspaceIds}

M1 == [db_path |-> "memory.db", workspace_id |-> "w1"]

\* two spellings of the workspace directory
WorkspaceRoots == {"/ws", "/ws/"}

\* the first 8 bytes of the SHA-256 of the path as it is spelled: one id per
\* spelling
generate_workspace_id(path) == IF path = "/ws" THEN "w1" ELSE "w2"

\* the manager MemoryManager::new(workspace_root) builds: the file is
\* <workspace_root>/.sentinelops/memory.db, one file for both spellings
ManagerFor(workspace_root) ==
    [db_path |-> "memory.db", workspace_id |-> generate_workspace_id(workspace_root)]

NoGuards == [memory |-> None, config |-> None, trash |-> None]

\* AppState::new(config) when MemoryManager::new returned the manager, the
\* three mutexes unlocked
AppState_new(workspace_root) ==
    [config |-> [workspace_root |-> workspace_root],
     trash |-> [workspace_root |-> workspace_root],
     memory |-> Some(ManagerFor(workspace_root)),
     held |-> NoGuards]

NoInput == [content |-> <<"alpha">>, summary |-> None, memory_type |-> None,
            tags |-> None, importance |-> None, is_pinned |-> None,
            source_conversation_id |-> None, source_message_ids |-> None,
            metadata |-> None]

FullInput == [content |-> <<"beta", ",", "alpha">>,
              summary |-> Some(<<"gamma">>),
              memory_type |-> Some("auto"),
              tags |-> Some(<<"rust", "db">>),
              importance |-> Some(3),
              is_pinned |-> Some(TRUE),
              source_conversation_id |-> Some("c1"),
              source_message_ids |-> Some(<<"m1">>),
              metadata |-> Some(<<"k", "v">>)]

CreateInputs == {NoInput, FullInput, [NoInput EXCEPT !.memory_type = Some("pinned")]}

NoUpdate == [content |-> None, summary |-> None, tags |-> None,
             importance |-> None, is_pinned |-> None, metadata |-> None]

UpdateInputs ==
    {[NoUpdate EXCEPT !.importance = Some(9)],
     [NoUpdate EXCEPT !.content = Some(<<"delta">>),
                      !.summary = Some(<<"beta">>),
                      !.tags = Some(<<"db">>),
                      !.is_pinned = Some(FALSE),
                      !.metadata = Some(<<"k2">>)]}

Embeddings == {<<1, 0>>}

EmbeddingModel == "openai/text-embedding-3-small"

Queries == {<<"alpha">>, <<"beta">>, <<"db">>, <<"\"">>}

Limits == {1, 2}

SearchLimits == {0, 1, 2}

Thresholds == {0, 70, 110}

NoFilters == [memory_type |-> None, tags |-> None, is_pinned |-> None,
              limit |-> None, offset |-> None, sort_by |-> None]

ListFilters ==
    {NoFilters,
     [NoFilters EXCEPT !.memory_type = Some("pinned")],
     [NoFilters EXCEPT !.memory_type = Some("auto"), !.sort_by = Some("importance")],
     [NoFilters EXCEPT !.limit = Some(1), !.offset = Some(1), !.sort_by = Some("accessed")]}

\* for the search specification: one workspace, vectors with exact cosines
SearchInputs == {NoInput, [NoInput EXCEPT !.content = <<"beta">>]}

StoredEmbeddings == {<<1, 0>>, <<3, 4>>, <<>>}

QueryEmbeddings == {<<1, 0>>, <<0, 1>>}

SearchQueries == {<<"alpha">>, <<"db">>}

SearchThresholds == {0, 60, 110}

\* for the store specification: settings, statistics, re-opening
StoreInputs == {NoInput, [NoInput EXCEPT !.memory_type = Some("auto"),
                                         !.is_pinned = Some(TRUE)]}

StoreUpdates == {[NoUpdate EXCEPT !.importance = Some(9), !.content = Some(<<"delta">>)]}

NoSettings == [auto_extract_enabled |-> None, extraction_model |-> None,
               embedding_model |-> None, max_memories |-> None,
               context_injection_count |-> None, similarity_threshold |-> None]

SettingsInputs ==
    {NoSettings,
     [NoSettings EXCEPT !.max_memories = Some(1)],
     [NoSettings EXCEPT !.auto_extract_enabled = Some(FALSE),
                        !.extraction_model = Some("gpt"),
                        !.similarity_threshold = Some(50)],
     [NoSettings EXCEPT !.embedding_model = Some("local-embed"),
                        !.context_injection_count = Some(3)]}

\* for the list specification: pages and the pinned pseudo-type
ListInputs == {NoInput,
               [NoInput EXCEPT !.is_pinned = Some(TRUE)],
               [NoInput EXCEPT !.memory_type = Some("auto"), !.is_pinned = Some(TRUE)]}

PageFilters ==
    {[NoFilters EXCEPT !.limit = l, !.offset = o] :
        l \in {None, Some(0), Some(1), Some(2)}, o \in {None, Some(1), Some(2), Some(4)}}
    \cup {[NoFilters EXCEPT !.memory_type = Some("pinned")],
          [NoFilters EXCEPT !.memory_type = Some("user"), !.limit = Some(1)]}

\* concurrently running command handlers
Handlers == {"h1", "h2"}

\* what can come of one request to the embedding provider
ProviderOutcomes == {"not_configured", "transport", "http_status", "bad_body",
                     "no_vector", "vector"}

NoCmd == [name |-> "none", request |-> <<>>, memory_id |-> 0, outcome |-> "none",
          embedding |-> None, result |-> <<>>]

CreateMemoryRequests ==
    {[input |-> i, generate_embedding |-> g] :
        i \in {NoInput, [NoInput EXCEPT !.memory_type = Some("pinned")]},
        g \in {None, Some(FALSE)}}

SearchMemoryRequests ==
    {[query |-> <<"alpha">>, limit |-> None, threshold |-> t, include_embedding |-> e] :
        t \in {None, Some(0)}, e \in {None, Some(FALSE)}}

\* the ids a caller passes: those issued so far, and 0, which is never issued
IdArgs == issued \cup {0}

\* an id derived from the number of rows
new_v4_FromRowCount == Cardinality(DOMAIN memories) + 1

\* Uuid::new_v4(): 122 random bits, taken to be a value never drawn before
new_v4 == Cardinality(issued) + 1

----------------------------------------------------------------------------
(* The store operations as steps.  A call leaves what it returned in last; *)
(* Return hands it to the caller, after which the next call can be made.   *)

SetDB(db) ==
    /\ memories' = db.memories
    /\ memories_fts' = db.memories_fts
    /\ triggers' = db.triggers
    /\ memory_settings' = db.memory_settings

Idle == [op |-> "none"]

Init ==
    /\ memories = <<>>
    /\ memories_fts = EmptyBag
    /\ triggers = TriggerNames
    /\ memory_settings = [w \in WorkspaceIds |-> DefaultSettings(w, 0)]
    /\ issued = {}
    /\ clock = 0
    /\ last = Idle
    /\ pc = [h \in Handlers |-> "idle"]
    /\ cmd = [h \in Handlers |-> NoCmd]
    /\ app = AppState_new("/ws")

Tick ==
    /\ last = Idle
    /\ clock < MaxClock
    /\ clock' = clock + 1
    /\ UNCHANGED <<dbVars, issued, last, cmdVars>>

Return ==
    /\ last # Idle
    /\ last' = Idle
    /\ UNCHANGED <<dbVars, issued, clock, cmdVars>>

CreateMemory(ms, inputs, max) ==
    /\ last = Idle
    /\ \E m \in ms, input \in inputs :
        /\ Cardinality(issued) < max
        /\ LET r == create_memory(DB, m, input, new_v4, clock)
           IN /\ SetDB(r.db)
              /\ last' = [op |-> "create_memory", mgr |-> m, input |-> input,
                          id |-> new_v4, res |-> r.res]
        /\ issued' = issued \cup {new_v4}
        /\ UNCHANGED <<clock, cmdVars>>

GetMemory(ms) ==
    /\ last = Idle
    /\ \E m \in ms, id \in IdArgs :
        /\ last' = [op |-> "get_memory", mgr |-> m, id |-> id, res |-> get_memory(DB, m, id)]
        /\ UNCHANGED <<dbVars, issued, clock, cmdVars>>

UpdateMemory(ms, inputs) ==
    /\ last = Idle
    /\ \E m \in ms, id \in IdArgs, input \in inputs :
        /\ LET r == update_memory(DB, m, id, input, clock)
           IN /\ SetDB(r.db)
              /\ last' = [op |-> "update_memory", mgr |-> m, id |-> id,
                          input |-> input, res |-> r.res]
        /\ UNCHANGED <<issued, clock, cmdVars>>

DeleteMemory(ms) ==
    /\ last = Idle
    /\ \E m \in ms, id \in IdArgs :
        /\ LET r == delete_memory(DB, m, id)
           IN /\ SetDB(r.db)
              /\ last' = [op |-> "delete_memory", mgr |-> m, id |-> id, res |-> r.res]
        /\ UNCHANGED <<issued, clock, cmdVars>>

StoreEmbedding(ms, embeddings) ==
    /\ last = Idle
    /\ \E m \in ms, id \in IdArgs, embedding \in embeddings :
        /\ LET r == store_embedding(DB, m, id, embedding, EmbeddingModel, clock)
           IN /\ SetDB(r.db)
              /\ last' = [op |-> "store_embedding", mgr |-> m, id |-> id,
                          embedding |-> embedding, res |-> r.res]
        /\ UNCHANGED <<issued, clock, cmdVars>>

IncrementAccess(ms) ==
    /\ last = Idle
    /\ \E m \in ms, id \in IdArgs :
        /\ \A r \in DOMAIN memories : memories[r].id = id => memories[r].access_count < MaxAccess
        /\ LET r == increment_access(DB, m, id, clock)
           IN /\ SetDB(r.db)
              /\ last' = [op |-> "increment_access", mgr |-> m, id |-> id, res |-> r.res]
        /\ UNCHANGED <<issued, clock, cmdVars>>

ListMemories(ms, filterSet) ==
    /\ last = Idle
    /\ \E m \in ms, filters \in filterSet :
        \E order \in ListOrders(DB, m, filters) :
            /\ last' = [op |-> "list_memories", mgr |-> m, filters |-> filters,
                        res |-> list_memories(DB, m, filters, order)]
            /\ UNCHANGED <<dbVars, issued, clock, cmdVars>>

SearchKeyword(ms, queries, limits) ==
    /\ last = Idle
    /\ \E m \in ms, query \in queries, limit \in limits :
        \E order \in KeywordOrders(DB, m, query) :
            /\ last' = [op |-> "search_keyword", mgr |-> m, query |-> query, limit |-> limit,
                        res |-> search_keyword(DB, m, query, limit, order)]
            /\ UNCHANGED <<dbVars, issued, clock, cmdVars>>

SearchSemantic(ms, embeddings, limits, thresholds) ==
    /\ last = Idle
    /\ \E m \in ms, q \in embeddings, limit \in limits, threshold \in thresholds :
        \E order \in Orderings(SemanticRows(DB, m)) :
            /\ last' = [op |-> "search_semantic", mgr |-> m, query_embedding |-> q,
                        limit |-> limit, threshold |-> threshold,
                        res |-> search_semantic(DB, m, q, limit, threshold, order)]
            /\ UNCHANGED <<dbVars, issued, clock, cmdVars>>

SearchHybrid(ms, queries, embeddings, limits, thresholds) ==
    /\ last = Idle
    /\ \E m \in ms, query \in queries, q \in {None} \cup {Some(e) : e \in embeddings},
       limit \in limits, threshold \in thresholds :
        \E semOrder \in IF q = None THEN {<<>>} ELSE Orderings(SemanticRows(DB, m)),
           kwOrder \in KeywordOrders(DB, m, query) :
            /\ last' = [op |-> "search_hybrid", mgr |-> m, query |-> query,
                        query_embedding |-> q, limit |-> limit, threshold |-> threshold,
                        res |-> search_hybrid(DB, m, query, q, limit, threshold,
                                              semOrder, kwOrder)]
            /\ UNCHANGED <<dbVars, issued, clock, cmdVars>>

\* one manager and its store
Next ==
    \/ Tick
    \/ Return
    \/ CreateMemory({M1}, CreateInputs, MaxMemories)
    \/ GetMemory({M1})
    \/ UpdateMemory({M1}, UpdateInputs)
    \/ DeleteMemory({M1})
    \/ StoreEmbedding({M1}, Embeddings)
    \/ IncrementAccess({M1})
    \/ SearchKeyword({M1}, Queries, Limits)

Spec == Init /\ [][Next]_vars

\* two managers that share one database file
NextShared ==
    \/ Return
    \/ CreateMemory(Managers, SearchInputs, MaxMemories)
    \/ GetMemory(Managers)
    \/ UpdateMemory(Managers, UpdateInputs)
    \/ DeleteMemory(Managers)
    \/ StoreEmbedding(Managers, Embeddings)
    \/ IncrementAccess(Managers)
    \/ ListMemories(Managers, ListFilters)
    \/ SearchKeyword(Managers, Queries, Limits)
    \/ SearchSemantic(Managers, Embeddings, Limits, Thresholds)

SpecShared == Init /\ [][NextShared]_vars

\* search over one workspace with several embedded memories
NextSearch ==
    \/ Return
    \/ CreateMemory({M1}, SearchInputs, MaxSearchRows)
    \/ StoreEmbedding({M1}, StoredEmbeddings)
    \/ SearchKeyword({M1}, SearchQueries, SearchLimits)
    \/ SearchSemantic({M1}, QueryEmbeddings, SearchLimits, SearchThresholds)
    \/ SearchHybrid({M1}, SearchQueries, QueryEmbeddings, SearchLimits, SearchThresholds)

SpecSearch == Init /\ [][NextSearch]_vars

\* updates of memories that have a stored vector
NextEmbed ==
    \/ Return
    \/ CreateMemory({M1}, SearchInputs, MaxMemories)
    \/ UpdateMemory({M1}, UpdateInputs)
    \/ StoreEmbedding({M1}, StoredEmbeddings)
    \/ SearchSemantic({M1}, QueryEmbeddings, Limits, SearchThresholds)

SpecEmbed == Init /\ [][NextEmbed]_vars

\* the store before any MemoryManager was opened on it: no file
InitUnopened ==
    /\ memories = <<>>
    /\ memories_fts = EmptyBag
    /\ triggers = {}
    /\ memory_settings = <<>>
    /\ issued = {}
    /\ clock = 0
    /\ last = Idle
    /\ pc = [h \in Handlers |-> "idle"]
    /\ cmd = [h \in Handlers |-> NoCmd]
    /\ app = AppState_new("/ws")

\* the managers that MemoryManager::new has returned
Opened(ms) == {m \in ms : m.workspace_id \in DOMAIN memory_settings}

Open(ms) ==
    /\ last = Idle
    /\ \E m \in ms :
        /\ LET r == MemoryManager_new(DB, m, clock)
           IN /\ SetDB(r.db)
              /\ last' = [op |-> "new", mgr |-> m, res |-> r.res]
        /\ UNCHANGED <<issued, clock, cmdVars>>

GetSettings(ms) ==
    /\ last = Idle
    /\ \E m \in ms :
        /\ last' = [op |-> "get_settings", mgr |-> m, res |-> get_settings(DB, m)]
        /\ UNCHANGED <<dbVars, issued, clock, cmdVars>>

UpdateSettings(ms, inputs) ==
    /\ last = Idle
    /\ \E m \in ms, input \in inputs :
        /\ LET r == update_settings(DB, m, input, clock)
           IN /\ SetDB(r.db)
              /\ last' = [op |-> "update_settings", mgr |-> m, input |-> input,
                          res |-> r.res]
        /\ UNCHANGED <<issued, clock, cmdVars>>

GetStats(ms) ==
    /\ last = Idle
    /\ \E m \in ms :
        /\ last' = [op |-> "get_stats", mgr |-> m, res |-> get_stats(DB, m)]
        /\ UNCHANGED <<dbVars, issued, clock, cmdVars>>

\* every operation of one manager, from before its first open
NextStore ==
    \/ Tick
    \/ Return
    \/ Open({M1})
    \/ CreateMemory(Opened({M1}), StoreInputs, MaxMemories)
    \/ GetMemory(Opened({M1}))
    \/ UpdateMemory(Opened({M1}), StoreUpdates)
    \/ DeleteMemory(Opened({M1}))
    \/ StoreEmbedding(Opened({M1}), Embeddings)
    \/ IncrementAccess(Opened({M1}))
    \/ ListMemories(Opened({M1}), {NoFilters})
    \/ SearchKeyword(Opened({M1}), {<<"alpha">>}, {2})
    \/ SearchSemantic(Opened({M1}), Embeddings, {2}, {0})
    \/ SearchHybrid(Opened({M1}), {<<"alpha">>}, Embeddings, {2}, {0})
    \/ GetSettings(Opened({M1}))
    \/ UpdateSettings(Opened({M1}), SettingsInputs)
    \/ GetStats(Opened({M1}))

SpecStore == InitUnopened /\ [][NextStore]_vars

\* pages of list_memories over pinned and unpinned memories
NextList ==
    \/ Tick
    \/ Return
    \/ CreateMemory({M1}, ListInputs, MaxListRows)
    \/ DeleteMemory({M1})
    \/ ListMemories({M1}, PageFilters)

SpecList == Init /\ [][NextList]_vars

----------------------------------------------------------------------------
(* Commands (commands/memory.rs) and the embedding provider                *)
(* (commands/llm.rs).  A handler runs from one lock of AppState.memory or  *)
(* one await to the next in a step.  ApiResponse.request_id is left out.   *)

ApiSuccess(data) == [ok |-> TRUE, data |-> Some(data), error |-> None]

ApiError(code) == [ok |-> FALSE, data |-> None, error |-> Some(code)]

\* create_embedding, given what came of the request
create_embedding(outcome, vector) ==
    CASE outcome = "not_configured" -> Ok(ApiError("LLM_NOT_CONFIGURED"))
      [] outcome = "transport" -> Ok(ApiError("EMBEDDING_ERROR"))
      [] outcome = "http_status" -> Ok(ApiError("EMBEDDING_ERROR"))
      [] outcome = "bad_body" -> Err("error decoding response body")
      [] outcome = "no_vector" ->
            Ok(ApiSuccess([embedding |-> <<>>, model |-> EmbeddingModel, dimensions |-> 0]))
      [] OTHER ->
            Ok(ApiSuccess([embedding |-> vector, model |-> EmbeddingModel,
                           dimensions |-> Len(vector)]))

Finish(h, result) ==
    /\ pc' = [pc EXCEPT ![h] = "done"]
    /\ cmd' = [cmd EXCEPT ![h].result = result]

\* create_memory: insert the row under the lock
CreateMemoryCmd(h) ==
    /\ pc[h] = "idle"
    /\ Cardinality(issued) < MaxMemories
    /\ \E request \in CreateMemoryRequests :
        LET r == create_memory(DB, M1, request.input, new_v4, clock)
        IN /\ SetDB(r.db)
           /\ issued' = issued \cup {new_v4}
           /\ IF ~r.res.ok
              THEN /\ pc' = [pc EXCEPT ![h] = "done"]
                   /\ cmd' = [cmd EXCEPT ![h] = [NoCmd EXCEPT !.name = "create_memory",
                                                              !.request = request,
                                                              !.result = Err(r.res.err)]]
              ELSE /\ pc' = [pc EXCEPT ![h] =
                                IF UnwrapOr(request.generate_embedding, TRUE)
                                THEN "create_await" ELSE "create_refetch"]
                   /\ cmd' = [cmd EXCEPT ![h] = [NoCmd EXCEPT !.name = "create_memory",
                                                              !.request = request,
                                                              !.memory_id = r.res.val.id]]
    /\ UNCHANGED <<clock, last, app>>

\* create_memory: create_embedding(...).await?
CreateMemoryAwait(h) ==
    /\ pc[h] = "create_await"
    /\ \E outcome \in ProviderOutcomes, vector \in Embeddings :
        LET embedding_result == create_embedding(outcome, vector)
        IN IF ~embedding_result.ok
           THEN /\ pc' = [pc EXCEPT ![h] = "done"]
                /\ cmd' = [cmd EXCEPT ![h].outcome = outcome,
                                      ![h].result = Err(embedding_result.err)]
           ELSE IF embedding_result.val.ok /\ embedding_result.val.data # None
           THEN /\ pc' = [pc EXCEPT ![h] = "create_store"]
                /\ cmd' = [cmd EXCEPT ![h].outcome = outcome,
                                      ![h].embedding = embedding_result.val.data]
           ELSE /\ pc' = [pc EXCEPT ![h] = "create_refetch"]
                /\ cmd' = [cmd EXCEPT ![h].outcome = outcome]
    /\ UNCHANGED <<dbVars, issued, clock, last, app>>

\* create_memory: store the embedding under the lock
CreateMemoryStore(h) ==
    /\ pc[h] = "create_store"
    /\ LET emb_data == Unwrap(cmd[h].embedding)
           r == store_embedding(DB, M1, cmd[h].memory_id, emb_data.embedding,
                                emb_data.model, clock)
       IN SetDB(r.db)
    /\ pc' = [pc EXCEPT ![h] = "create_refetch"]
    /\ UNCHANGED <<issued, clock, last, cmd, app>>

\* create_memory: re-fetch the memory under the lock and answer
CreateMemoryRefetch(h) ==
    /\ pc[h] = "create_refetch"
    /\ LET got == get_memory(DB, M1, cmd[h].memory_id)
       IN Finish(h, IF got.val # None THEN Ok(ApiSuccess(Unwrap(got.val)))
                    ELSE Ok(ApiError("NOT_FOUND")))
    /\ UNCHANGED <<dbVars, issued, clock, last, app>>

\* search_memories: up to the await of create_embedding
SearchMemoriesCmd(h) ==
    /\ pc[h] = "idle"
    /\ \E request \in SearchMemoryRequests :
        /\ pc' = [pc EXCEPT ![h] = IF UnwrapOr(request.include_embedding, TRUE)
                                   THEN "search_await" ELSE "search_run"]
        /\ cmd' = [cmd EXCEPT ![h] = [NoCmd EXCEPT !.name = "search_memories",
                                                   !.request = request]]
    /\ UNCHANGED <<dbVars, issued, clock, last, app>>

\* search_memories: create_embedding(...).await?
SearchMemoriesAwait(h) ==
    /\ pc[h] = "search_await"
    /\ \E outcome \in ProviderOutcomes, vector \in Embeddings :
        LET emb_result == create_embedding(outcome, vector)
        IN IF ~emb_result.ok
           THEN /\ pc' = [pc EXCEPT ![h] = "done"]
                /\ cmd' = [cmd EXCEPT ![h].outcome = outcome,
                                      ![h].result = Err(emb_result.err)]
           ELSE /\ pc' = [pc EXCEPT ![h] = "search_run"]
                /\ cmd' = [cmd EXCEPT
                             ![h].outcome = outcome,
                             ![h].embedding =
                                 IF emb_result.val.ok /\ emb_result.val.data # None
                                 THEN Some(Unwrap(emb_result.val.data).embedding)
                                 ELSE None]
    /\ UNCHANGED <<dbVars, issued, clock, last, app>>

\* search_memories: search_hybrid under the lock and answer
SearchMemoriesRun(h) ==
    /\ pc[h] = "search_run"
    /\ LET request == cmd[h].request
           limit == UnwrapOr(request.limit, 10)
           threshold == UnwrapOr(request.threshold, 70)
           query_embedding == cmd[h].embedding
       IN \E semOrder \in IF query_embedding = None THEN {<<>>}
                          ELSE Orderings(SemanticRows(DB, M1)) :
            \E kwOrder \in KeywordOrders(DB, M1, request.query) :
                LET found == search_hybrid(DB, M1, request.query, query_embedding,
                                           limit, threshold, semOrder, kwOrder).val
                    search_type ==
                        IF /\ query_embedding # None
                           /\ found # <<>>
                           /\ found[1].match_type = "semantic"
                        THEN "semantic" ELSE "keyword"
                IN Finish(h, Ok(ApiSuccess([memories |-> found,
                                            count |-> Len(found),
                                            search_type |-> search_type])))
    /\ UNCHANGED <<dbVars, issued, clock, last, app>>

\* the answer is delivered; the handler can take the next command
CommandReturn(h) ==
    /\ pc[h] = "done"
    /\ pc' = [pc EXCEPT ![h] = "idle"]
    /\ cmd' = [cmd EXCEPT ![h] = NoCmd]
    /\ UNCHANGED <<dbVars, issued, clock, last, app>>

NextCmd ==
    \E h \in Handlers :
        \/ CreateMemoryCmd(h)
        \/ CreateMemoryAwait(h)
        \/ CreateMemoryStore(h)
        \/ CreateMemoryRefetch(h)
        \/ SearchMemoriesCmd(h)
        \/ SearchMemoriesAwait(h)
        \/ SearchMemoriesRun(h)
        \/ CommandReturn(h)

SpecCmd == Init /\ [][NextCmd]_vars

\* get_relevant_memories holds the guard on AppState.memory from its search
\* to the end of its loop over the results
HoldsMemoryLock(h) == pc[h] = "relevant_access"

MemoryUnlocked == \A h \in Handlers : ~HoldsMemoryLock(h)

RelevantRequests == {[context |-> <<"alpha">>, limit |-> l] : l \in {None, Some(1)}}

\* get_relevant_memories: read the threshold from the settings under the lock
RelevantCmd(h) ==
    /\ pc[h] = "idle"
    /\ MemoryUnlocked
    /\ \E request \in RelevantRequests :
        LET settings == get_settings(DB, M1)
            started == [name |-> "get_relevant_memories", request |-> request,
                        memory_id |-> 0, outcome |-> "none", embedding |-> None,
                        result |-> <<>>, threshold |-> 0, memories |-> <<>>, next |-> 1]
        IN IF ~settings.ok
           THEN /\ pc' = [pc EXCEPT ![h] = "done"]
                /\ cmd' = [cmd EXCEPT ![h] = [started EXCEPT !.result = Err(settings.err)]]
           ELSE /\ pc' = [pc EXCEPT ![h] = "relevant_await"]
                /\ cmd' = [cmd EXCEPT ![h] =
                             [started EXCEPT !.threshold = settings.val.similarity_threshold]]
    /\ UNCHANGED <<dbVars, issued, clock, last, app>>

\* get_relevant_memories: create_embedding(...).await?
RelevantAwait(h) ==
    /\ pc[h] = "relevant_await"
    /\ \E outcome \in ProviderOutcomes, vector \in Embeddings :
        LET emb_result == create_embedding(outcome, vector)
        IN IF ~emb_result.ok
           THEN /\ pc' = [pc EXCEPT ![h] = "done"]
                /\ cmd' = [cmd EXCEPT ![h].outcome = outcome,
                                      ![h].result = Err(emb_result.err)]
           ELSE /\ pc' = [pc EXCEPT ![h] = "relevant_search"]
                /\ cmd' = [cmd EXCEPT
                             ![h].outcome = outcome,
                             ![h].embedding =
                                 IF emb_result.val.ok /\ emb_result.val.data # None
                                 THEN Some(Unwrap(emb_result.val.data).embedding)
                                 ELSE None]
    /\ UNCHANGED <<dbVars, issued, clock, last, app>>

\* get_relevant_memories: take the lock and run search_hybrid
RelevantSearch(h) ==
    /\ pc[h] = "relevant_search"
    /\ MemoryUnlocked
    /\ LET request == cmd[h].request
           limit == UnwrapOr(request.limit, 5)
           query_embedding == cmd[h].embedding
       IN \E semOrder \in IF query_embedding = None THEN {<<>>}
                          ELSE Orderings(SemanticRows(DB, M1)) :
            \E kwOrder \in KeywordOrders(DB, M1, request.context) :
                LET found == search_hybrid(DB, M1, request.context, query_embedding,
                                           limit, cmd[h].threshold, semOrder, kwOrder)
                IN /\ pc' = [pc EXCEPT ![h] = "relevant_access"]
                   /\ cmd' = [cmd EXCEPT ![h].memories = found.val, ![h].next = 1]
    /\ UNCHANGED <<dbVars, issued, clock, last, app>>

\* get_relevant_memories: one turn of `for mem in &memories`, the result of
\* increment_access discarded; after the last turn the answer, and the lock
\* is dropped
RelevantAccess(h) ==
    /\ pc[h] = "relevant_access"
    /\ IF cmd[h].next <= Len(cmd[h].memories)
       THEN /\ SetDB(increment_access(DB, M1, cmd[h].memories[cmd[h].next].memory.id,
                                      clock).db)
            /\ cmd' = [cmd EXCEPT ![h].next = @ + 1]
            /\ pc' = pc
       ELSE /\ Finish(h, Ok(ApiSuccess(cmd[h].memories)))
            /\ UNCHANGED dbVars
    /\ UNCHANGED <<issued, clock, last, app>>

\* a create_memory call by a caller that holds the lock
CreateMemoryUnlocked == MemoryUnlocked /\ CreateMemory({M1}, {NoInput}, MaxMemories)

\* concurrent get_relevant_memories commands over memories created meanwhile
NextAccess ==
    \/ Tick
    \/ Return
    \/ CreateMemoryUnlocked
    \/ \E h \in Handlers :
          \/ RelevantCmd(h)
          \/ RelevantAwait(h)
          \/ RelevantSearch(h)
          \/ RelevantAccess(h)

SpecAccess == Init /\ [][NextAccess]_vars

----------------------------------------------------------------------------
(* The commands with the guards they take on the mutexes of AppState       *)
(* (services/mod.rs).  Mutex::lock blocks until the mutex is free; a guard *)
(* is released where its scope ends.  A handler takes one step to obtain a *)
(* guard and one step for what it does while it holds it; an await is a    *)
(* step of its own.  AppState.terminals is used by no command modelled     *)
(* here and is left out.                                                   *)

Unlock(a, mutex) == [a EXCEPT !.held[mutex] = None]

Started(name, request, ret) ==
    [name |-> name, request |-> request, ret |-> ret, memory_id |-> 0,
     embedding |-> None, result |-> <<>>, threshold |-> 0, existing |-> None,
     items |-> <<>>, memory |-> None, created |-> <<>>]

Goto(h, p, c, a) ==
    /\ pc' = [pc EXCEPT ![h] = p]
    /\ cmd' = [cmd EXCEPT ![h] = c]
    /\ app' = a

\* the command returns result; every guard it held has gone out of scope
Answer(h, c, result, a) == Goto(h, "done", [c EXCEPT !.result = result], a)

NotInitialized == Err("Memory manager not initialized")

\* state.memory.lock(): where a handler waits for the guard, and where it is
\* once it holds it
MemoryLockSites ==
    [goi_lock |-> "goi_check", create_lock |-> "create_insert",
     store_lock |-> "create_store", refetch_lock |-> "create_refetch",
     get_lock |-> "get_run", update_lock |-> "update_read",
     delete_lock |-> "delete_run", settings_lock |-> "settings_read",
     search_lock |-> "search_run", threshold_lock |-> "relevant_threshold",
     relevant_lock |-> "relevant_run", extract_lock |-> "extract_insert",
     extract_store_lock |-> "extract_store"]

\* state.config.lock()
ConfigLockSites ==
    [goi_config |-> "goi_init", embed_lock |-> "embed_config",
     extract_config_lock |-> "extract_config", set_config_lock |-> "set_config"]

\* state.trash.lock()
TrashLockSites == [set_trash_lock |-> "set_trash"]

\* a lock that does not wait for the holder
LockMemory_Shared(h) ==
    /\ pc[h] \in DOMAIN MemoryLockSites
    /\ app' = [app EXCEPT !.held.memory = Some(h)]
    /\ pc' = [pc EXCEPT ![h] = MemoryLockSites[pc[h]]]
    /\ UNCHANGED <<dbVars, issued, clock, last, cmd>>

LockMemory(h) ==
    /\ pc[h] \in DOMAIN MemoryLockSites
    /\ app.held.memory = None
    /\ app' = [app EXCEPT !.held.memory = Some(h)]
    /\ pc' = [pc EXCEPT ![h] = MemoryLockSites[pc[h]]]
    /\ UNCHANGED <<dbVars, issued, clock, last, cmd>>

LockConfig(h) ==
    /\ pc[h] \in DOMAIN ConfigLockSites
    /\ app.held.config = None
    /\ app' = [app EXCEPT !.held.config = Some(h)]
    /\ pc' = [pc EXCEPT ![h] = ConfigLockSites[pc[h]]]
    /\ UNCHANGED <<dbVars, issued, clock, last, cmd>>

LockTrash(h) ==
    /\ pc[h] \in DOMAIN TrashLockSites
    /\ app.held.trash = None
    /\ app' = [app EXCEPT !.held.trash = Some(h)]
    /\ pc' = [pc EXCEPT ![h] = TrashLockSites[pc[h]]]
    /\ UNCHANGED <<dbVars, issued, clock, last, cmd>>

\* get_or_init_memory, holding the guard on memory: a manager is there, or
\* the handler goes on to lock config
GetOrInitCheck(h) ==
    /\ pc[h] = "goi_check"
    /\ IF app.memory # None
       THEN Goto(h, cmd[h].ret, cmd[h], Unlock(app, "memory"))
       ELSE Goto(h, "goi_config", cmd[h], app)
    /\ UNCHANGED <<dbVars, issued, clock, last>>

\* get_or_init_memory, holding both guards:
\* *memory = Some(MemoryManager::new(&config.workspace_root)?)
GetOrInitNew(h) ==
    /\ pc[h] = "goi_init"
    /\ LET r == MemoryManager_new(DB, ManagerFor(app.config.workspace_root), clock)
           released == Unlock(Unlock(app, "config"), "memory")
       IN /\ SetDB(r.db)
          /\ IF r.res.ok
             THEN Goto(h, cmd[h].ret, cmd[h], [released EXCEPT !.memory = Some(r.res.val)])
             ELSE Answer(h, cmd[h], Err(r.res.err), released)
    /\ UNCHANGED <<issued, clock, last>>

\* extract_memories, the head of `for item in extracted`: items without
\* content are passed over; after the last item the command returns what it
\* created
RECURSIVE Advance(_)
Advance(c) ==
    IF c.items = <<>>
    THEN [pc |-> "done", cmd |-> [c EXCEPT !.result = Ok(ApiSuccess(c.created))]]
    ELSE IF Head(c.items).content = <<>>
    THEN Advance([c EXCEPT !.items = Tail(c.items)])
    ELSE [pc |-> "extract_lock", cmd |-> c]

\* created_memories.push(memory)
Push(c, memory) == [c EXCEPT !.created = Append(@, memory), !.memory = None]

\* where a command goes on once create_embedding has returned r
AfterEmbedding(c, r) ==
    IF ~r.ok THEN [pc |-> "done", cmd |-> [c EXCEPT !.result = Err(r.err)]]
    ELSE LET usable == r.val.ok /\ r.val.data # None
         IN CASE c.name = "create_memory" ->
                   IF usable
                   THEN [pc |-> "store_lock", cmd |-> [c EXCEPT !.embedding = r.val.data]]
                   ELSE [pc |-> "refetch_lock", cmd |-> c]
              [] c.name = "search_memories" ->
                   [pc |-> "search_lock",
                    cmd |-> [c EXCEPT !.embedding =
                                IF usable THEN Some(Unwrap(r.val.data).embedding) ELSE None]]
              [] c.name = "get_relevant_memories" ->
                   [pc |-> "relevant_lock",
                    cmd |-> [c EXCEPT !.embedding =
                                IF usable THEN Some(Unwrap(r.val.data).embedding) ELSE None]]
              [] c.name = "extract_memories" ->
                   IF usable
                   THEN [pc |-> "extract_store_lock",
                         cmd |-> [c EXCEPT !.embedding = r.val.data]]
                   ELSE Advance(Push(c, Unwrap(c.memory)))

\* create_embedding, holding the guard on config: the key and the base URL
\* are read and the guard is dropped; without a key the command returns
EmbedReadConfig(h) ==
    /\ pc[h] = "embed_config"
    /\ \E configured \in BOOLEAN :
        IF configured
        THEN Goto(h, "embed_send", cmd[h], Unlock(app, "config"))
        ELSE LET to == AfterEmbedding(cmd[h], create_embedding("not_configured", <<>>))
             IN Goto(h, to.pc, to.cmd, Unlock(app, "config"))
    /\ UNCHANGED <<dbVars, issued, clock, last>>

\* create_embedding: req.send().await and the reading of the response
EmbedResponse(h) ==
    /\ pc[h] = "embed_send"
    /\ \E outcome \in ProviderOutcomes \ {"not_configured"}, vector \in Embeddings :
        LET to == AfterEmbedding(cmd[h], create_embedding(outcome, vector))
        IN Goto(h, to.pc, to.cmd, app)
    /\ UNCHANGED <<dbVars, issued, clock, last>>

\* a cancellation that takes the handler's row back
Cancel_RollsBack(h) ==
    /\ pc[h] = "embed_send"
    /\ Goto(h, "idle", NoCmd, app)
    /\ SetDB(IF app.memory = None THEN DB
             ELSE delete_memory(DB, Unwrap(app.memory), cmd[h].memory_id).db)
    /\ UNCHANGED <<issued, clock, last>>

\* the handler's future is dropped while the request to the provider is
\* pending
Cancel(h) ==
    /\ pc[h] = "embed_send"
    /\ Goto(h, "idle", NoCmd, app)
    /\ UNCHANGED <<dbVars, issued, clock, last>>

\* the rows the commands under way will still insert
PendingInserts ==
    SeqSum([i \in 1..2 |->
        LET h == IF i = 1 THEN "h1" ELSE "h2"
        IN IF /\ cmd[h].name = "create_memory"
              /\ pc[h] \in {"goi_lock", "goi_check", "goi_config", "goi_init",
                            "create_lock", "create_insert"}
           THEN 1
           ELSE IF cmd[h].name = "extract_memories" /\ pc[h] # "done"
           THEN Len(SelectSeq(cmd[h].items, LAMBDA item : item.content # <<>>))
           ELSE 0])

BeginCreateMemory(h, requests) ==
    /\ pc[h] = "idle"
    /\ Cardinality(issued) + PendingInserts < MaxMemories
    /\ \E request \in requests :
        Goto(h, "goi_lock", Started("create_memory", request, "create_lock"), app)
    /\ UNCHANGED <<dbVars, issued, clock, last>>

\* create_memory with its guard declared in the scope of the function
CreateInsert_KeepsGuard(h) ==
    /\ pc[h] = "create_insert"
    /\ app.memory # None
    /\ LET r == create_memory(DB, Unwrap(app.memory), cmd[h].request.input, new_v4, clock)
       IN /\ SetDB(r.db)
          /\ issued' = issued \cup {new_v4}
          /\ IF ~r.res.ok
             THEN Answer(h, cmd[h], Err(r.res.err), Unlock(app, "memory"))
             ELSE Goto(h, IF UnwrapOr(cmd[h].request.generate_embedding, TRUE)
                          THEN "embed_lock" ELSE "refetch_lock",
                       [cmd[h] EXCEPT !.memory_id = r.res.val.id], app)
    /\ UNCHANGED <<clock, last>>

\* create_memory, holding the guard: the row is inserted, the guard dropped
CreateInsert(h) ==
    /\ pc[h] = "create_insert"
    /\ IF app.memory = None
       THEN /\ Answer(h, cmd[h], NotInitialized, Unlock(app, "memory"))
            /\ UNCHANGED <<dbVars, issued>>
       ELSE LET r == create_memory(DB, Unwrap(app.memory), cmd[h].request.input,
                                   new_v4, clock)
            IN /\ SetDB(r.db)
               /\ issued' = issued \cup {new_v4}
               /\ IF ~r.res.ok
                  THEN Answer(h, cmd[h], Err(r.res.err), Unlock(app, "memory"))
                  ELSE Goto(h, IF UnwrapOr(cmd[h].request.generate_embedding, TRUE)
                               THEN "embed_lock" ELSE "refetch_lock",
                            [cmd[h] EXCEPT !.memory_id = r.res.val.id],
                            Unlock(app, "memory"))
    /\ UNCHANGED <<clock, last>>

\* create_memory, holding the guard: let _ = manager.store_embedding(...)
CreateStoreEmbedding(h) ==
    /\ pc[h] = "create_store"
    /\ IF app.memory = None
       THEN /\ Answer(h, cmd[h], NotInitialized, Unlock(app, "memory"))
            /\ UNCHANGED dbVars
       ELSE LET emb_data == Unwrap(cmd[h].embedding)
                r == store_embedding(DB, Unwrap(app.memory), cmd[h].memory_id,
                                     emb_data.embedding, emb_data.model, clock)
            IN /\ SetDB(r.db)
               /\ Goto(h, "refetch_lock", cmd[h], Unlock(app, "memory"))
    /\ UNCHANGED <<issued, clock, last>>

\* create_memory, holding the guard: the memory is read again and returned
CreateRefetch(h) ==
    /\ pc[h] = "create_refetch"
    /\ IF app.memory = None
       THEN Answer(h, cmd[h], NotInitialized, Unlock(app, "memory"))
       ELSE LET got == get_memory(DB, Unwrap(app.memory), cmd[h].memory_id)
            IN Answer(h, cmd[h],
                      IF got.val # None THEN Ok(ApiSuccess(Unwrap(got.val)))
                      ELSE Ok(ApiError("NOT_FOUND")),
                      Unlock(app, "memory"))
    /\ UNCHANGED <<dbVars, issued, clock, last>>

BeginDeleteMemory(h) ==
    /\ pc[h] = "idle"
    /\ \E id \in IdArgs :
        Goto(h, "goi_lock", Started("delete_memory", [id |-> id], "delete_lock"), app)
    /\ UNCHANGED <<dbVars, issued, clock, last>>

\* delete_memory, holding the guard
DeleteRun(h) ==
    /\ pc[h] = "delete_run"
    /\ IF app.memory = None
       THEN /\ Answer(h, cmd[h], NotInitialized, Unlock(app, "memory"))
            /\ UNCHANGED dbVars
       ELSE LET r == delete_memory(DB, Unwrap(app.memory), cmd[h].request.id)
            IN /\ SetDB(r.db)
               /\ Answer(h, cmd[h], Ok(ApiSuccess(r.res.val)), Unlock(app, "memory"))
    /\ UNCHANGED <<issued, clock, last>>

BeginSearchMemories(h, requests) ==
    /\ pc[h] = "idle"
    /\ \E request \in requests :
        Goto(h, "goi_lock",
             Started("search_memories", request,
                     IF UnwrapOr(request.include_embedding, TRUE)
                     THEN "embed_lock" ELSE "search_lock"),
             app)
    /\ UNCHANGED <<dbVars, issued, clock, last>>

\* search_memories, holding the guard: search_hybrid, and the answer
SearchRun(h) ==
    /\ pc[h] = "search_run"
    /\ IF app.memory = None
       THEN Answer(h, cmd[h], NotInitialized, Unlock(app, "memory"))
       ELSE LET manager == Unwrap(app.memory)
                request == cmd[h].request
                query_embedding == cmd[h].embedding
            IN \E semOrder \in IF query_embedding = None THEN {<<>>}
                               ELSE Orderings(SemanticRows(DB, manager)) :
                 \E kwOrder \in KeywordOrders(DB, manager, request.query) :
                     LET found == search_hybrid(DB, manager, request.query, query_embedding,
                                                UnwrapOr(request.limit, 10),
                                                UnwrapOr(request.threshold, 70),
                                                semOrder, kwOrder)
                         search_type ==
                             IF /\ query_embedding # None
                                /\ found.val # <<>>
                                /\ found.val[1].match_type = "semantic"
                             THEN "semantic" ELSE "keyword"
                     IN Answer(h, cmd[h],
                               IF ~found.ok THEN found
                               ELSE Ok(ApiSuccess([memories |-> found.val,
                                                   count |-> Len(found.val),
                                                   search_type |-> search_type])),
                               Unlock(app, "memory"))
    /\ UNCHANGED <<dbVars, issued, clock, last>>

\* the get_relevant_memories commands under way
RelevantUnderWay ==
    Cardinality({h \in Handlers : cmd[h].name = "get_relevant_memories" /\ pc[h] # "done"})

BeginRelevant(h, requests) ==
    /\ pc[h] = "idle"
    /\ \A r \in DOMAIN memories :
          memories[r].access_count + RelevantUnderWay < MaxRelevant
    /\ \E request \in requests :
        Goto(h, "goi_lock", Started("get_relevant_memories", request, "threshold_lock"), app)
    /\ UNCHANGED <<dbVars, issued, clock, last>>

\* get_relevant_memories, holding the guard: the threshold of the settings
RelevantThreshold(h) ==
    /\ pc[h] = "relevant_threshold"
    /\ IF app.memory = None
       THEN Answer(h, cmd[h], NotInitialized, Unlock(app, "memory"))
       ELSE LET settings == get_settings(DB, Unwrap(app.memory))
            IN IF ~settings.ok
               THEN Answer(h, cmd[h], settings, Unlock(app, "memory"))
               ELSE Goto(h, "embed_lock",
                         [cmd[h] EXCEPT !.threshold = settings.val.similarity_threshold],
                         Unlock(app, "memory"))
    /\ UNCHANGED <<dbVars, issued, clock, last>>

\* the loop that stops after its first turn
RECURSIVE IncrementAll_FirstOnly(_, _, _, _)
IncrementAll_FirstOnly(db, m, found, now) ==
    IF found = <<>> THEN db
    ELSE increment_access(db, m, Head(found).memory.id, now).db

\* for mem in &memories { let _ = manager.increment_access(&mem.memory.id); }
RECURSIVE IncrementAll(_, _, _, _)
IncrementAll(db, m, found, now) ==
    IF found = <<>> THEN db
    ELSE IncrementAll(increment_access(db, m, Head(found).memory.id, now).db,
                      m, Tail(found), now)

\* get_relevant_memories, holding the guard: search_hybrid, the loop over
\* what it returned, and the answer
RelevantRun(h) ==
    /\ pc[h] = "relevant_run"
    /\ IF app.memory = None
       THEN /\ Answer(h, cmd[h], NotInitialized, Unlock(app, "memory"))
            /\ UNCHANGED dbVars
       ELSE LET manager == Unwrap(app.memory)
                context == cmd[h].request.context
                query_embedding == cmd[h].embedding
            IN \E semOrder \in IF query_embedding = None THEN {<<>>}
                               ELSE Orderings(SemanticRows(DB, manager)) :
                 \E kwOrder \in KeywordOrders(DB, manager, context) :
                     LET found == search_hybrid(DB, manager, context, query_embedding,
                                                UnwrapOr(cmd[h].request.limit, 5),
                                                cmd[h].threshold, semOrder, kwOrder)
                     IN IF ~found.ok
                        THEN /\ Answer(h, cmd[h], found, Unlock(app, "memory"))
                             /\ UNCHANGED dbVars
                        ELSE /\ SetDB(IncrementAll(DB, manager, found.val, clock))
                             /\ Answer(h, cmd[h], Ok(ApiSuccess(found.val)),
                                       Unlock(app, "memory"))
    /\ UNCHANGED <<issued, clock, last>>

\* extract_memories up to its lock of config: fewer than 4 messages are
\* answered at once
BeginExtractMemories(h, requests) ==
    /\ pc[h] = "idle"
    /\ \E request \in requests :
        LET c == Started("extract_memories", request, "none")
        IN IF Len(request.messages) < 4
           THEN Answer(h, c, Ok(ApiSuccess(<<>>)), app)
           ELSE Goto(h, "extract_config_lock", c, app)
    /\ UNCHANGED <<dbVars, issued, clock, last>>

\* extract_memories, holding the guard on config: without an API key the
\* command returns
ExtractReadConfig(h) ==
    /\ pc[h] = "extract_config"
    /\ \E api_key \in {None, Some("key")} :
        IF api_key = None
        THEN Answer(h, cmd[h], Ok(ApiSuccess(<<>>)), Unlock(app, "config"))
        ELSE Goto(h, "extract_llm", cmd[h], Unlock(app, "config"))
    /\ UNCHANGED <<dbVars, issued, clock, last>>

\* what the model's reply parses to: nothing, one memory, or an item without
\* content followed by a memory
ExtractedItem == [content |-> <<"alpha">>, summary |-> Some(<<"gamma">>),
                  tags |-> Some(<<"rust">>), importance |-> Some(7)]

ExtractedLists ==
    {<<>>, <<ExtractedItem>>, <<[ExtractedItem EXCEPT !.content = <<>>], ExtractedItem>>}

\* extract_memories: the chat completion request, the parsing of its reply,
\* and the call of get_or_init_memory
ExtractLlm(h) ==
    /\ pc[h] = "extract_llm"
    /\ \E outcome \in {"transport", "http_status", "bad_body", "content"} :
        CASE outcome \in {"transport", "bad_body"} ->
                Answer(h, cmd[h], Err(outcome), app)
          [] outcome = "http_status" ->
                Answer(h, cmd[h], Ok(ApiSuccess(<<>>)), app)
          [] OTHER ->
                \E extracted \in ExtractedLists :
                    /\ Cardinality(issued) + PendingInserts
                          + Len(SelectSeq(extracted, LAMBDA item : item.content # <<>>))
                          <= MaxMemories
                    /\ LET to == Advance([cmd[h] EXCEPT !.items = extracted])
                       IN Goto(h, "goi_lock", [to.cmd EXCEPT !.ret = to.pc], app)
    /\ UNCHANGED <<dbVars, issued, clock, last>>

\* extract_memories, holding the guard: manager.create_memory(input).ok()
ExtractInsert(h) ==
    /\ pc[h] = "extract_insert"
    /\ IF app.memory = None
       THEN /\ Answer(h, cmd[h], NotInitialized, Unlock(app, "memory"))
            /\ UNCHANGED <<dbVars, issued>>
       ELSE LET item == Head(cmd[h].items)
                input == [content |-> item.content,
                          summary |-> item.summary,
                          memory_type |-> Some("auto"),
                          tags |-> item.tags,
                          importance |-> item.importance,
                          is_pinned |-> Some(FALSE),
                          source_conversation_id |-> Some(cmd[h].request.conversation_id),
                          source_message_ids |-> None,
                          metadata |-> None]
                r == create_memory(DB, Unwrap(app.memory), input, new_v4, clock)
                rest == [cmd[h] EXCEPT !.items = Tail(@)]
            IN /\ SetDB(r.db)
               /\ issued' = issued \cup {new_v4}
               /\ IF ~r.res.ok
                  THEN LET to == Advance(rest)
                       IN Goto(h, to.pc, to.cmd, Unlock(app, "memory"))
                  ELSE Goto(h, "embed_lock",
                            [rest EXCEPT !.memory = Some(r.res.val),
                                         !.memory_id = r.res.val.id],
                            Unlock(app, "memory"))
    /\ UNCHANGED <<clock, last>>

\* extract_memories, holding the guard: store_embedding, then the memory as
\* it is now
ExtractStoreEmbedding(h) ==
    /\ pc[h] = "extract_store"
    /\ IF app.memory = None
       THEN /\ Answer(h, cmd[h], NotInitialized, Unlock(app, "memory"))
            /\ UNCHANGED dbVars
       ELSE LET manager == Unwrap(app.memory)
                emb_data == Unwrap(cmd[h].embedding)
                r == store_embedding(DB, manager, cmd[h].memory_id,
                                     emb_data.embedding, emb_data.model, clock)
                got == get_memory(r.db, manager, cmd[h].memory_id)
                to == Advance(Push(cmd[h], IF got.ok /\ got.val # None
                                           THEN Unwrap(got.val)
                                           ELSE Unwrap(cmd[h].memory)))
            IN /\ SetDB(r.db)
               /\ Goto(h, to.pc, to.cmd, Unlock(app, "memory"))
    /\ UNCHANGED <<issued, clock, last>>

BeginUpdateMemory(h, inputs) ==
    /\ pc[h] = "idle"
    /\ \E id \in IdArgs, input \in inputs :
        Goto(h, "goi_lock",
             Started("update_memory", [id |-> id, input |-> input], "update_lock"), app)
    /\ UNCHANGED <<dbVars, issued, clock, last>>

\* update_memory, holding the guard: MemoryManager::update_memory reads the
\* memory as it is
UpdateRead(h) ==
    /\ pc[h] = "update_read"
    /\ IF app.memory = None
       THEN Answer(h, cmd[h], NotInitialized, Unlock(app, "memory"))
       ELSE LET found == get_memory(DB, Unwrap(app.memory), cmd[h].request.id)
            IN IF found.val = None
               THEN Answer(h, cmd[h], Err("Memory not found"), Unlock(app, "memory"))
               ELSE Goto(h, "update_write", [cmd[h] EXCEPT !.existing = found.val], app)
    /\ UNCHANGED <<dbVars, issued, clock, last>>

\* the UPDATE of update_memory with the values of the input, or else of the
\* memory read before, and the read that follows it
UpdateStatement(db, m, id, input, existing, now) ==
    LET content == UnwrapOr(input.content, existing.content)
        summary == OptionOr(input.summary, existing.summary)
        tags == OptionOr(input.tags, existing.tags)
        importance == UnwrapOr(input.importance, existing.importance)
        is_pinned == UnwrapOr(input.is_pinned, existing.is_pinned)
        metadata == OptionOr(input.metadata, existing.metadata)
        hit == RowsWhere(db, m, id)
        upd == UpdateRows(db, hit,
                  [r \in hit |-> [db.memories[r] EXCEPT
                                    !.content = content,
                                    !.summary = summary,
                                    !.tags = JsonColumn(tags),
                                    !.importance = importance,
                                    !.is_pinned = IF is_pinned THEN 1 ELSE 0,
                                    !.metadata = JsonColumn(metadata),
                                    !.updated_at = now]])
        got == get_memory(upd.db, m, id)
    IN [db |-> upd.db,
        res |-> IF got.val = None THEN Err("Memory not found after update")
                ELSE Ok(Unwrap(got.val))]

\* update_memory, still holding the guard: the UPDATE, the read after it,
\* and the answer
UpdateWrite(h) ==
    /\ pc[h] = "update_write"
    /\ IF app.memory = None
       THEN /\ Answer(h, cmd[h], NotInitialized, Unlock(app, "memory"))
            /\ UNCHANGED dbVars
       ELSE LET r == UpdateStatement(DB, Unwrap(app.memory), cmd[h].request.id,
                                     cmd[h].request.input, Unwrap(cmd[h].existing), clock)
            IN /\ SetDB(r.db)
               /\ Answer(h, cmd[h],
                         IF r.res.ok THEN Ok(ApiSuccess(r.res.val)) ELSE r.res,
                         Unlock(app, "memory"))
    /\ UNCHANGED <<issued, clock, last>>

BeginUpdateSettings(h, inputs) ==
    /\ pc[h] = "idle"
    /\ \E settings \in inputs :
        Goto(h, "goi_lock", Started("update_memory_settings", settings, "settings_lock"), app)
    /\ UNCHANGED <<dbVars, issued, clock, last>>

\* update_memory_settings, holding the guard: MemoryManager::update_settings
\* reads the current settings
SettingsRead(h) ==
    /\ pc[h] = "settings_read"
    /\ IF app.memory = None
       THEN Answer(h, cmd[h], NotInitialized, Unlock(app, "memory"))
       ELSE LET current == get_settings(DB, Unwrap(app.memory))
            IN IF ~current.ok
               THEN Answer(h, cmd[h], current, Unlock(app, "memory"))
               ELSE Goto(h, "settings_write",
                         [cmd[h] EXCEPT !.existing = Some(current.val)], app)
    /\ UNCHANGED <<dbVars, issued, clock, last>>

\* the UPDATE of update_settings with the values of the input, or else of
\* the settings read before, and the read that follows it
SettingsStatement(db, m, input, current, now) ==
    LET db2 == [db EXCEPT !.memory_settings[m.workspace_id] =
                  [@ EXCEPT
                     !.auto_extract_enabled =
                         IF UnwrapOr(input.auto_extract_enabled,
                                     current.auto_extract_enabled) THEN 1 ELSE 0,
                     !.extraction_model =
                         OptionOr(input.extraction_model, current.extraction_model),
                     !.embedding_model =
                         Some(UnwrapOr(input.embedding_model, current.embedding_model)),
                     !.max_memories = UnwrapOr(input.max_memories, current.max_memories),
                     !.context_injection_count =
                         UnwrapOr(input.context_injection_count,
                                  current.context_injection_count),
                     !.similarity_threshold =
                         UnwrapOr(input.similarity_threshold, current.similarity_threshold),
                     !.updated_at = now]]
    IN [db |-> db2, res |-> get_settings(db2, m)]

\* update_memory_settings, still holding the guard: the UPDATE, the read
\* after it, and the answer
SettingsWrite(h) ==
    /\ pc[h] = "settings_write"
    /\ IF app.memory = None
       THEN /\ Answer(h, cmd[h], NotInitialized, Unlock(app, "memory"))
            /\ UNCHANGED dbVars
       ELSE LET r == SettingsStatement(DB, Unwrap(app.memory), cmd[h].request,
                                       Unwrap(cmd[h].existing), clock)
            IN /\ SetDB(r.db)
               /\ Answer(h, cmd[h],
                         IF r.res.ok THEN Ok(ApiSuccess(r.res.val)) ELSE r.res,
                         Unlock(app, "memory"))
    /\ UNCHANGED <<issued, clock, last>>

BeginGetMemory(h) ==
    /\ pc[h] = "idle"
    /\ \E id \in IdArgs :
        Goto(h, "goi_lock", Started("get_memory", [id |-> id], "get_lock"), app)
    /\ UNCHANGED <<dbVars, issued, clock, last>>

\* get_memory, holding the guard
GetRun(h) ==
    /\ pc[h] = "get_run"
    /\ IF app.memory = None
       THEN Answer(h, cmd[h], NotInitialized, Unlock(app, "memory"))
       ELSE LET got == get_memory(DB, Unwrap(app.memory), cmd[h].request.id)
            IN Answer(h, cmd[h],
                      IF got.val # None THEN Ok(ApiSuccess(Unwrap(got.val)))
                      ELSE Ok(ApiError("NOT_FOUND")),
                      Unlock(app, "memory"))
    /\ UNCHANGED <<dbVars, issued, clock, last>>

\* the paths given to set_workspace: the spellings of the directory, a path
\* that does not exist, a file
WorkspacePaths == WorkspaceRoots \cup {"/missing", "/ws/file"}

\* set_workspace up to its lock of config: the path must be a directory
BeginSetWorkspace(h) ==
    /\ pc[h] = "idle"
    /\ \E path \in WorkspacePaths :
        LET c == Started("set_workspace", [path |-> path], "none")
        IN IF path = "/missing" THEN Answer(h, c, Ok(ApiError("PATH_NOT_FOUND")), app)
           ELSE IF path \notin WorkspaceRoots
           THEN Answer(h, c, Ok(ApiError("NOT_A_DIRECTORY")), app)
           ELSE Goto(h, "set_config_lock", c, app)
    /\ UNCHANGED <<dbVars, issued, clock, last>>

\* set_workspace with the guard on config held while it asks for the guard
\* on trash
SetWorkspaceConfig_KeepsGuard(h) ==
    /\ pc[h] = "set_config"
    /\ Goto(h, "set_trash_lock", cmd[h],
            [app EXCEPT !.config.workspace_root = cmd[h].request.path])
    /\ UNCHANGED <<dbVars, issued, clock, last>>

\* set_workspace, holding the guard on config: config.set_workspace(new_path)
SetWorkspaceConfig(h) ==
    /\ pc[h] = "set_config"
    /\ Goto(h, "set_trash_lock", cmd[h],
            Unlock([app EXCEPT !.config.workspace_root = cmd[h].request.path], "config"))
    /\ UNCHANGED <<dbVars, issued, clock, last>>

\* set_workspace, holding the guard on trash: trash.update_workspace(&new_path)
SetWorkspaceTrash(h) ==
    /\ pc[h] = "set_trash"
    /\ Answer(h, cmd[h], Ok(ApiSuccess([workspaceRoot |-> cmd[h].request.path])),
              Unlock([app EXCEPT !.trash.workspace_root = cmd[h].request.path], "trash"))
    /\ UNCHANGED <<dbVars, issued, clock, last>>

\* AppState::new: the store exists; MemoryManager::new(&workspace).ok() gave
\* the manager, or None when it failed
InitApp ==
    /\ memories = <<>>
    /\ memories_fts = EmptyBag
    /\ triggers = TriggerNames
    /\ memory_settings = [w \in WorkspaceIds |-> DefaultSettings(w, 0)]
    /\ issued = {}
    /\ clock = 0
    /\ last = Idle
    /\ pc = [h \in Handlers |-> "idle"]
    /\ cmd = [h \in Handlers |-> NoCmd]
    /\ app \in {AppState_new("/ws"), [AppState_new("/ws") EXCEPT !.memory = None]}

EmbeddingRequest == [input |-> NoInput, generate_embedding |-> None]

\* a delete_memory command beside a create_memory command
NextRace ==
    \E h \in Handlers :
        \/ BeginCreateMemory(h, {EmbeddingRequest})
        \/ BeginDeleteMemory(h)
        \/ LockMemory(h)
        \/ LockConfig(h)
        \/ GetOrInitCheck(h)
        \/ GetOrInitNew(h)
        \/ CreateInsert(h)
        \/ EmbedReadConfig(h)
        \/ EmbedResponse(h)
        \/ CreateStoreEmbedding(h)
        \/ CreateRefetch(h)
        \/ DeleteRun(h)
        \/ CommandReturn(h)

SpecRace == InitApp /\ [][NextRace]_vars

GuardedSearch == [query |-> <<"alpha">>, limit |-> None, threshold |-> None,
                  include_embedding |-> None]

GuardedRelevant == [context |-> <<"alpha">>, limit |-> None]

ExtractRequests ==
    {[conversation_id |-> "c1", model |-> None, messages |-> ms] :
        ms \in {<<"user", "assistant", "user">>,
                <<"user", "assistant", "user", "assistant">>}}

\* the commands that call the embedding provider
NextGuard ==
    \E h \in Handlers :
        \/ BeginCreateMemory(h, {EmbeddingRequest})
        \/ BeginSearchMemories(h, {GuardedSearch})
        \/ BeginRelevant(h, {GuardedRelevant})
        \/ BeginExtractMemories(h, ExtractRequests)
        \/ LockMemory(h)
        \/ LockConfig(h)
        \/ GetOrInitCheck(h)
        \/ GetOrInitNew(h)
        \/ EmbedReadConfig(h)
        \/ EmbedResponse(h)
        \/ Cancel(h)
        \/ CreateInsert(h)
        \/ CreateStoreEmbedding(h)
        \/ CreateRefetch(h)
        \/ SearchRun(h)
        \/ RelevantThreshold(h)
        \/ RelevantRun(h)
        \/ ExtractReadConfig(h)
        \/ ExtractLlm(h)
        \/ ExtractInsert(h)
        \/ ExtractStoreEmbedding(h)
        \/ CommandReturn(h)

SpecGuard == InitApp /\ [][NextGuard]_vars

PlainRequest == [input |-> NoInput, generate_embedding |-> Some(FALSE)]

DisjointSettings ==
    {[NoSettings EXCEPT !.max_memories = Some(1)],
     [NoSettings EXCEPT !.auto_extract_enabled = Some(FALSE),
                        !.extraction_model = Some("gpt"),
                        !.similarity_threshold = Some(50)]}

\* update commands beside each other
NextSerial ==
    \E h \in Handlers :
        \/ BeginCreateMemory(h, {PlainRequest})
        \/ BeginUpdateMemory(h, UpdateInputs)
        \/ BeginUpdateSettings(h, DisjointSettings)
        \/ LockMemory(h)
        \/ LockConfig(h)
        \/ GetOrInitCheck(h)
        \/ GetOrInitNew(h)
        \/ CreateInsert(h)
        \/ CreateRefetch(h)
        \/ UpdateRead(h)
        \/ UpdateWrite(h)
        \/ SettingsRead(h)
        \/ SettingsWrite(h)
        \/ CommandReturn(h)

SpecSerial == InitApp /\ [][NextSerial]_vars

\* memory commands beside set_workspace
NextWorkspace ==
    \E h \in Handlers :
        \/ BeginSetWorkspace(h)
        \/ BeginCreateMemory(h, {PlainRequest})
        \/ BeginGetMemory(h)
        \/ LockMemory(h)
        \/ LockConfig(h)
        \/ LockTrash(h)
        \/ GetOrInitCheck(h)
        \/ GetOrInitNew(h)
        \/ SetWorkspaceConfig(h)
        \/ SetWorkspaceTrash(h)
        \/ CreateInsert(h)
        \/ CreateRefetch(h)
        \/ GetRun(h)
        \/ CommandReturn(h)

SpecWorkspace == InitApp /\ [][NextWorkspace]_vars

\* the commands that take the guards of more than one mutex
NextLive ==
    \E h \in Handlers :
        \/ BeginCreateMemory(h, {EmbeddingRequest})
        \/ BeginSetWorkspace(h)
        \/ LockMemory(h)
        \/ LockConfig(h)
        \/ LockTrash(h)
        \/ GetOrInitCheck(h)
        \/ GetOrInitNew(h)
        \/ EmbedReadConfig(h)
        \/ EmbedResponse(h)
        \/ CreateInsert(h)
        \/ CreateStoreEmbedding(h)
        \/ CreateRefetch(h)
        \/ SetWorkspaceConfig(h)
        \/ SetWorkspaceTrash(h)
        \/ CommandReturn(h)

\* a handler's step from where it waits for a guard
LockStep(h) == LockMemory(h) \/ LockConfig(h) \/ LockTrash(h)

\* a handler's step from where it holds a guard: synchronous code
Section(h) ==
    \/ GetOrInitCheck(h)
    \/ GetOrInitNew(h)
    \/ EmbedReadConfig(h)
    \/ CreateInsert(h)
    \/ CreateStoreEmbedding(h)
    \/ CreateRefetch(h)
    \/ SetWorkspaceConfig(h)
    \/ SetWorkspaceTrash(h)

\* the code that runs under a guard runs to the end of the guard's scope; a
\* handler blocked in Mutex::lock gets the mutex at one of its releases.
\* Nothing is assumed of the provider: a request may stay pending for ever.
SpecLive ==
    /\ InitApp
    /\ [][NextLive]_vars
    /\ \A h \in Handlers : WF_vars(Section(h)) /\ SF_vars(LockStep(h))

----------------------------------------------------------------------------
(* Properties                                                              *)

\* the rows of the table that belong to a manager's workspace
OwnRows(m) == {r \in DOMAIN memories : memories[r].workspace_id = m.workspace_id}

\* the memories a call handed back
Returned(call) ==
    CASE call.op = "get_memory" ->
            IF call.res.val = None THEN {} ELSE {Unwrap(call.res.val)}
      [] call.op \in {"create_memory", "update_memory"} ->
            IF call.res.ok THEN {call.res.val} ELSE {}
      [] call.op = "list_memories" -> Range(call.res.val.memories)
      [] call.op \in {"search_keyword", "search_semantic", "search_hybrid"} ->
            {x.memory : x \in Range(call.res.val)}
      [] OTHER -> {}

\* a step in which a call is made
Calls(op) == last = Idle /\ last' # Idle /\ last'.op = op

IsolatedOps == {"get_memory", "list_memories", "search_keyword", "search_semantic",
                "update_memory", "delete_memory", "store_embedding", "increment_access"}

\* C1: a call on one manager returns no memory of another workspace and
\* leaves every row and index entry of another workspace as it was; get_memory
\* with an id that another workspace's row carries returns not-found
C1_WorkspaceIsolation ==
    [][(last = Idle /\ last' # Idle /\ last'.op \in IsolatedOps) =>
          LET m == last'.mgr
              foreign == DOMAIN memories \ OwnRows(m)
          IN /\ \A x \in Returned(last') : x.workspace_id = m.workspace_id
             /\ \A r \in foreign :
                   /\ r \in DOMAIN memories'
                   /\ memories'[r] = memories[r]
                   /\ CopiesIn(FtsEntry(r, memories[r]), memories_fts')
                        = CopiesIn(FtsEntry(r, memories[r]), memories_fts)
             /\ (last'.op = "get_memory" /\ \E r \in foreign : memories[r].id = last'.id)
                   => last'.res = Ok(None)
             /\ (last'.op = "delete_memory" /\ \E r \in foreign : memories[r].id = last'.id)
                   => last'.res = Ok(FALSE)]_vars

\* get_memory through one manager was asked for an id that lives in the
\* other workspace of the same file, and answered not-found
C1_Witness ==
    /\ last # Idle
    /\ last.op = "get_memory"
    /\ \E r \in DOMAIN memories :
          memories[r].id = last.id /\ memories[r].workspace_id # last.mgr.workspace_id
    /\ OwnRows(last.mgr) # {}
    /\ last.res = Ok(None)

\* the vector a row stores
StoredVector(row) == bytes_to_f32_vec(Unwrap(row.embedding))

\* rows of the workspace with an embedding that scores at least threshold
Eligible(m, q, threshold) ==
    {r \in OwnRows(m) :
        /\ memories[r].embedding # None
        /\ cosine_similarity(q, StoredVector(memories[r])) >= threshold}

\* the words of a row's current content, summary and tags
RowWords(row) ==
    Range(Tokenize(row.content)) \cup Range(ColumnTokens(row.summary))
        \cup Range(ColumnTokens(row.tags))

\* rows of the workspace whose current text contains every word of the query
LexicalMatches(m, query) ==
    {r \in OwnRows(m) : Fts5Accepts(query) /\ Range(query) \subseteq RowWords(memories[r])}

Min(a, b) == IF a <= b THEN a ELSE b

\* search_semantic comes back empty for these arguments
SemanticEmpty(call) ==
    \/ call.query_embedding = None
    \/ call.limit = 0
    \/ Eligible(call.mgr, Unwrap(call.query_embedding), call.threshold) = {}

\* C2: with no embedding, or when nothing reaches the threshold, search_hybrid
\* returns what search_keyword(query, limit) returns: keyword items only, one
\* for each lexically matching memory up to limit, none when nothing matches
C2_HybridFallsBackToKeyword ==
    (last # Idle /\ last.op = "search_hybrid" /\ SemanticEmpty(last)) =>
        LET matching == LexicalMatches(last.mgr, last.query)
        IN /\ last.res \in {search_keyword(DB, last.mgr, last.query, last.limit, o) :
                              o \in KeywordOrders(DB, last.mgr, last.query)}
           /\ \A i \in DOMAIN last.res.val : last.res.val[i].match_type = "keyword"
           /\ Returned(last) \subseteq {row_to_memory(memories[r]) : r \in matching}
           /\ Len(last.res.val) = Min(last.limit, Cardinality(matching))
           /\ Cardinality(Returned(last)) = Len(last.res.val)

\* an embedding was supplied, a memory has an embedding, nothing reached the
\* threshold, and the lexical match came back
C2_Witness ==
    /\ last # Idle
    /\ last.op = "search_hybrid"
    /\ last.query_embedding # None
    /\ SemanticRows(DB, last.mgr) # {}
    /\ last.limit > 0
    /\ Eligible(last.mgr, Unwrap(last.query_embedding), last.threshold) = {}
    /\ last.res.val # <<>>

\* C3: when the embedding finds something, search_hybrid returns the semantic
\* list as it is; no result list ever mixes semantic and keyword items
C3_HybridSemanticVerbatim ==
    (last # Idle /\ last.op = "search_hybrid") =>
        /\ \A i, j \in DOMAIN last.res.val :
              last.res.val[i].match_type = last.res.val[j].match_type
        /\ ~SemanticEmpty(last) =>
              /\ last.res \in {search_semantic(DB, last.mgr, Unwrap(last.query_embedding),
                                               last.limit, last.threshold, o) :
                                 o \in Orderings(SemanticRows(DB, last.mgr))}
              /\ last.res.val # <<>>
              /\ \A i \in DOMAIN last.res.val : last.res.val[i].match_type = "semantic"
              /\ Returned(last) \subseteq
                    {row_to_memory(memories[r]) :
                        r \in Eligible(last.mgr, Unwrap(last.query_embedding), last.threshold)}

\* the semantic list came back while a lexically matching memory, left out of
\* it, would still have fitted under the limit
C3_Witness ==
    /\ last # Idle
    /\ last.op = "search_hybrid"
    /\ ~SemanticEmpty(last)
    /\ Len(last.res.val) < last.limit
    /\ \E r \in LexicalMatches(last.mgr, last.query) :
          row_to_memory(memories[r]) \notin Returned(last)

\* C4: search_semantic returns the first limit of the memories of the
\* workspace that have an embedding and score at least threshold, best first
C4_SemanticTopK ==
    (last # Idle /\ last.op = "search_semantic") =>
        LET res == last.res.val
            el == Eligible(last.mgr, last.query_embedding, last.threshold)
            scoreOf(r) == cosine_similarity(last.query_embedding, StoredVector(memories[r]))
            returnedRows == {r \in el : \E i \in DOMAIN res : res[i].memory.id = memories[r].id}
        IN /\ last.res.ok
           /\ Len(res) = Min(last.limit, Cardinality(el))
           /\ \A i \in DOMAIN res :
                 \E r \in el : res[i] = [memory |-> row_to_memory(memories[r]),
                                         score |-> scoreOf(r),
                                         match_type |-> "semantic"]
           /\ \A i, j \in DOMAIN res :
                 i < j => res[i].score >= res[j].score /\ res[i].memory.id # res[j].memory.id
           /\ \A i \in DOMAIN res : res[i].score >= last.threshold
           /\ \A r \in el \ returnedRows : \A i \in DOMAIN res : res[i].score >= scoreOf(r)
           /\ last.threshold > 100 => res = <<>>

\* an item scoring exactly the threshold was kept, an eligible one was cut
\* off by the limit, and a memory with an embedding scored below the threshold
C4_Witness ==
    /\ last # Idle
    /\ last.op = "search_semantic"
    /\ \E i \in DOMAIN last.res.val : last.res.val[i].score = last.threshold
    /\ Len(last.res.val) < Cardinality(Eligible(last.mgr, last.query_embedding, last.threshold))
    /\ SemanticRows(DB, last.mgr) \ Eligible(last.mgr, last.query_embedding, last.threshold) # {}

\* the provider call failed: missing credentials, transport error,
\* non-success HTTP status, or a 2xx answer whose body is not JSON
ProviderFailures == {"not_configured", "transport", "http_status", "bad_body"}

\* a command of handler h has answered after a failed provider call
AnsweredAfterFailure(h, name) ==
    /\ pc[h] = "done"
    /\ cmd[h].name = name
    /\ cmd[h].outcome \in ProviderFailures

\* C5: search_memories, after a failed provider call, answers with a
\* successful response that holds the keyword-search result, found with no
\* query embedding
C5_SearchAbsorbsProviderFailure ==
    [][\A h \in Handlers :
          (pc[h] # "done" /\ pc'[h] = "done" /\ cmd'[h].name = "search_memories"
              /\ cmd'[h].outcome \in ProviderFailures) =>
             /\ cmd'[h].result.ok
             /\ cmd'[h].result.val.ok
             /\ cmd'[h].embedding = None
             /\ LET data == Unwrap(cmd'[h].result.val.data)
                    request == cmd'[h].request
                IN /\ data.search_type = "keyword"
                   /\ data.count = Len(data.memories)
                   /\ Ok(data.memories) \in
                         {search_keyword(DB, M1, request.query,
                                         UnwrapOr(request.limit, 10), o) :
                            o \in KeywordOrders(DB, M1, request.query)}]_vars

\* C6: create_memory, after a failed provider call, answers success with the
\* created memory, embedding_model absent, and the inserted row is stored
C6_CreateAbsorbsProviderFailure ==
    \A h \in Handlers :
        AnsweredAfterFailure(h, "create_memory") =>
            /\ \E r \in DOMAIN memories :
                  /\ memories[r].id = cmd[h].memory_id
                  /\ memories[r].embedding = None
            /\ cmd[h].result.ok
            /\ cmd[h].result.val.ok
            /\ Unwrap(cmd[h].result.val.data).id = cmd[h].memory_id
            /\ Unwrap(cmd[h].result.val.data).embedding_model = None

\* the database after the step
DBNext == [memories |-> memories', memories_fts |-> memories_fts',
           triggers |-> triggers', memory_settings |-> memory_settings']

\* C7: the full-text index holds one entry per row, with the row's current
\* content, summary and tags; search_keyword returns memories that exist and
\* match on their current text, min(limit, number of matches) of them
C7_FtsInSync ==
    /\ memories_fts = SetToBag({FtsEntry(r, memories[r]) : r \in DOMAIN memories})
    /\ (last # Idle /\ last.op = "search_keyword" /\ Fts5Accepts(last.query)) =>
          LET matching == LexicalMatches(last.mgr, last.query)
          IN /\ last.res.ok
             /\ Returned(last) \subseteq {row_to_memory(memories[r]) : r \in matching}
             /\ Len(last.res.val) = Min(last.limit, Cardinality(matching))
             /\ Cardinality(Returned(last)) = Len(last.res.val)

\* a memory whose content was replaced, that has an embedding and was
\* accessed, is found under a word of its new text and no longer under the old
C7_Witness ==
    /\ last # Idle
    /\ last.op = "search_keyword"
    /\ last.query = <<"beta">>
    /\ \E r \in DOMAIN memories :
          /\ memories[r].content = <<"delta">>
          /\ memories[r].embedding # None
          /\ memories[r].access_count > 0
          /\ row_to_memory(memories[r]) \in Returned(last)
    /\ Cardinality(DOMAIN memories) < Cardinality(issued)

\* C8: create_memory with a valid type succeeds, get_memory of the new id
\* returns the memory create_memory returned, with the input's content, tags
\* and importance (5 and type user when omitted), and the id was never issued
C8_CreateThenGet ==
    [][Calls("create_memory") =>
          LET input == last'.input
          IN /\ last'.id \notin issued
             /\ UnwrapOr(input.memory_type, "user") \in MemoryTypes =>
                   /\ last'.res.ok
                   /\ get_memory(DBNext, last'.mgr, last'.id) = Ok(Some(last'.res.val))
                   /\ last'.res.val.id = last'.id
                   /\ last'.res.val.content = input.content
                   /\ last'.res.val.tags = input.tags
                   /\ last'.res.val.importance = UnwrapOr(input.importance, 5)
                   /\ input.memory_type = None => last'.res.val.memory_type = "User"]_vars

\* a memory with tags and an importance was created after an id had been
\* issued whose row is gone
C8_Witness ==
    /\ last # Idle
    /\ last.op = "create_memory"
    /\ last.input = FullInput
    /\ last.res.ok
    /\ Cardinality(DOMAIN memories) < Cardinality(issued)

\* C9: update_memory on an existing memory replaces the fields present in the
\* input and updated_at, and nothing else in that row or in any other row
C9_UpdateFrame ==
    [][Calls("update_memory") =>
          LET input == last'.input
              hit == {r \in DOMAIN memories :
                         /\ memories[r].id = last'.id
                         /\ memories[r].workspace_id = last'.mgr.workspace_id}
          IN IF hit = {}
             THEN ~last'.res.ok /\ memories' = memories
             ELSE /\ last'.res.ok
                  /\ DOMAIN memories' = DOMAIN memories
                  /\ \A r \in DOMAIN memories \ hit : memories'[r] = memories[r]
                  /\ \A r \in hit :
                        LET old == memories[r]
                            new == memories'[r]
                        IN /\ new.content = UnwrapOr(input.content, old.content)
                           /\ new.summary = IF input.summary # None THEN input.summary
                                            ELSE old.summary
                           /\ new.tags = IF input.tags # None
                                         THEN Some(ToJson(Unwrap(input.tags))) ELSE old.tags
                           /\ new.importance = UnwrapOr(input.importance, old.importance)
                           /\ new.is_pinned = IF input.is_pinned # None
                                              THEN (IF Unwrap(input.is_pinned) THEN 1 ELSE 0)
                                              ELSE old.is_pinned
                           /\ new.metadata = IF input.metadata # None
                                             THEN Some(ToJson(Unwrap(input.metadata)))
                                             ELSE old.metadata
                           /\ new.updated_at = clock
                           /\ [new EXCEPT !.content = old.content, !.summary = old.summary,
                                          !.tags = old.tags, !.importance = old.importance,
                                          !.is_pinned = old.is_pinned,
                                          !.metadata = old.metadata,
                                          !.updated_at = old.updated_at] = old
                           /\ last'.res.val = row_to_memory(new)]_vars

\* update(id, {importance: 9}) on a memory that has a summary, tags, an
\* embedding and an access, at a later time than its creation, next to
\* another memory
C9_Witness ==
    /\ last # Idle
    /\ last.op = "update_memory"
    /\ last.input = [NoUpdate EXCEPT !.importance = Some(9)]
    /\ last.res.ok
    /\ last.res.val.summary # None
    /\ last.res.val.tags # None
    /\ last.res.val.embedding_model # None
    /\ last.res.val.access_count > 0
    /\ last.res.val.updated_at > last.res.val.created_at
    /\ Cardinality(DOMAIN memories) > 1

\* C10: delete_memory returns Ok(true) exactly when the workspace had a row
\* with the id; afterwards get_memory finds nothing and a second delete_memory
\* returns Ok(false)
C10_DeleteReports ==
    [][Calls("delete_memory") =>
          LET existed == \E r \in DOMAIN memories :
                            /\ memories[r].id = last'.id
                            /\ memories[r].workspace_id = last'.mgr.workspace_id
          IN /\ last'.res = Ok(existed)
             /\ get_memory(DBNext, last'.mgr, last'.id) = Ok(None)
             /\ delete_memory(DBNext, last'.mgr, last'.id).res = Ok(FALSE)
             /\ delete_memory(DBNext, last'.mgr, last'.id).db = DBNext]_vars

\* a delete_memory that removed a row
C10_Witness ==
    /\ last # Idle
    /\ last.op = "delete_memory"
    /\ last.res = Ok(TRUE)
    /\ get_memory(DB, last.mgr, last.id) = Ok(None)

\* the methods that write to an existing row of table memories
MutatingOps == {"update_memory", "store_embedding", "increment_access"}

\* C11: a successful update_memory, store_embedding or increment_access on an
\* existing memory sets the memory's updated_at to the time of the call
C11_UpdatedAtOnMutation ==
    [][(last = Idle /\ last' # Idle /\ last'.op \in MutatingOps /\ last'.res.ok) =>
          \A r \in RowsWhere(DB, last'.mgr, last'.id) :
              /\ r \in DOMAIN memories'
              /\ memories'[r].updated_at = clock]_vars

\* C14: every row has embedding and embedding_model both present or both
\* absent; create_memory leaves both absent and store_embedding sets both
C14_EmbeddingAndModelTogether ==
    /\ \A r \in DOMAIN memories :
          (memories[r].embedding = None) <=> (memories[r].embedding_model = None)
    /\ (last # Idle /\ last.op = "create_memory" /\ last.res.ok) =>
          /\ last.res.val.embedding_model = None
          /\ \A r \in RowsWhere(DB, last.mgr, last.id) : memories[r].embedding = None
    /\ (last # Idle /\ last.op = "store_embedding") =>
          \A r \in RowsWhere(DB, last.mgr, last.id) :
              /\ memories[r].embedding = Some(f32_vec_to_bytes(last.embedding))
              /\ memories[r].embedding_model = Some(EmbeddingModel)

\* store_embedding has just written a row while another row has neither an
\* embedding nor a model, after an update_memory of the embedded row
C14_Witness ==
    /\ last # Idle
    /\ last.op = "store_embedding"
    /\ \E r \in RowsWhere(DB, last.mgr, last.id) :
          /\ memories[r].embedding # None
          /\ memories[r].content = <<"delta">>
    /\ \E r \in DOMAIN memories :
          memories[r].embedding = None /\ memories[r].embedding_model = None

\* the methods C12 names as leaving the access fields alone
NonAccessOps == {"get_memory", "list_memories", "search_keyword", "search_semantic",
                 "search_hybrid", "update_memory", "store_embedding"}

\* C12: get_memory, list_memories, search_keyword, search_semantic,
\* search_hybrid, update_memory and store_embedding leave access_count and
\* last_accessed_at of every memory unchanged; no call other than
\* increment_access changes them on a row that stays
C12_OnlyIncrementRecordsAccess ==
    [][(last = Idle /\ last' # Idle /\ last'.op # "increment_access") =>
          /\ \A r \in DOMAIN memories \cap DOMAIN memories' :
                /\ memories'[r].access_count = memories[r].access_count
                /\ memories'[r].last_accessed_at = memories[r].last_accessed_at
          /\ last'.op \in NonAccessOps => DOMAIN memories' = DOMAIN memories]_vars

\* search_hybrid returned, at a later time, a memory that was accessed before
C12_Witness ==
    /\ last # Idle
    /\ last.op = "search_hybrid"
    /\ \E x \in Returned(last) :
          /\ x.access_count = 1
          /\ x.last_accessed_at # None
          /\ Unwrap(x.last_accessed_at) < clock

\* C15: a row leaves table memories only in a delete_memory of its id by a
\* manager of its workspace
C15_OnlyDeleteRemoves ==
    [][\A r \in DOMAIN memories :
          r \notin DOMAIN memories' =>
              /\ last = Idle
              /\ last' # Idle
              /\ last'.op = "delete_memory"
              /\ last'.id = memories[r].id
              /\ last'.mgr.workspace_id = memories[r].workspace_id]_vars

\* the store was re-opened while the workspace holds more rows than
\* settings.max_memories, and the rows are there
C15_Witness ==
    /\ last # Idle
    /\ last.op = "new"
    /\ "w1" \in DOMAIN memory_settings
    /\ Cardinality(OwnRows(last.mgr)) > memory_settings["w1"].max_memories
    /\ Cardinality(OwnRows(last.mgr)) = Cardinality(issued)

\* C16: MemoryManager::new on a store that exists succeeds and changes no
\* row, no full-text entry, no settings row and no trigger; after every step
\* the index holds one entry per row
C16_ReopenIdempotent ==
    [][/\ (Calls("new") /\ last'.mgr.workspace_id \in DOMAIN memory_settings) =>
             /\ last'.res = Ok(last'.mgr)
             /\ DBNext = DB
             /\ triggers' = TriggerNames
       /\ memories_fts' = SetToBag({FtsEntry(r, memories'[r]) : r \in DOMAIN memories'})]_vars

\* the store was re-opened with a changed settings row and an updated,
\* embedded memory in it
C16_Witness ==
    /\ last # Idle
    /\ last.op = "new"
    /\ last.res.ok
    /\ \E r \in DOMAIN memories :
          memories[r].content = <<"delta">> /\ memories[r].embedding # None
    /\ memory_settings["w1"] # DefaultSettings("w1", 0)
    /\ Cardinality(DOMAIN memories) < Cardinality(issued)

\* C17: after MemoryManager::new the workspace has its settings row: the
\* defaults when it had none, the row as it was when it had one; no step
\* removes a settings row
C17_OneSettingsRow ==
    [][/\ (Calls("new") /\ last'.res.ok) =>
             LET w == last'.mgr.workspace_id
             IN /\ w \in DOMAIN memory_settings'
                /\ \A v \in DOMAIN memory_settings' : v # w => v \in DOMAIN memory_settings
                /\ w \in DOMAIN memory_settings => memory_settings'[w] = memory_settings[w]
                /\ w \notin DOMAIN memory_settings =>
                      /\ memory_settings'[w].auto_extract_enabled = 1
                      /\ memory_settings'[w].max_memories = 1000
                      /\ memory_settings'[w].context_injection_count = 5
                      /\ memory_settings'[w].similarity_threshold = 70
                      /\ memory_settings'[w].created_at = clock
                      /\ get_settings(DBNext, last'.mgr).val.auto_extract_enabled
       /\ DOMAIN memory_settings \subseteq DOMAIN memory_settings'
       /\ \A w \in DOMAIN memory_settings' : memory_settings'[w].workspace_id = w]_vars

\* a later open found the values update_settings had written
C17_Witness ==
    /\ last # Idle
    /\ last.op = "new"
    /\ last.res.ok
    /\ memory_settings["w1"].max_memories = 1
    /\ memory_settings["w1"].created_at < clock

\* C18: update_settings replaces the supplied fields and updated_at, keeps
\* every other field, and returns what get_settings then returns
C18_SettingsPartialUpdate ==
    [][Calls("update_settings") =>
          LET input == last'.input
              w == last'.mgr.workspace_id
              old == memory_settings[w]
              new == memory_settings'[w]
          IN /\ last'.res.ok
             /\ last'.res = get_settings(DBNext, last'.mgr)
             /\ new.auto_extract_enabled =
                   IF input.auto_extract_enabled # None
                   THEN (IF Unwrap(input.auto_extract_enabled) THEN 1 ELSE 0)
                   ELSE old.auto_extract_enabled
             /\ new.extraction_model = IF input.extraction_model # None
                                       THEN input.extraction_model ELSE old.extraction_model
             /\ new.embedding_model = IF input.embedding_model # None
                                      THEN input.embedding_model ELSE old.embedding_model
             /\ new.max_memories = UnwrapOr(input.max_memories, old.max_memories)
             /\ new.context_injection_count =
                   UnwrapOr(input.context_injection_count, old.context_injection_count)
             /\ new.similarity_threshold =
                   UnwrapOr(input.similarity_threshold, old.similarity_threshold)
             /\ new.updated_at = clock
             /\ new.created_at = old.created_at
             /\ new.workspace_id = old.workspace_id
             /\ DOMAIN memory_settings' = DOMAIN memory_settings
             /\ memories' = memories]_vars

\* max_memories alone was supplied, at a later time, to settings whose
\* extraction_model and similarity_threshold had been changed before
C18_Witness ==
    /\ last # Idle
    /\ last.op = "update_settings"
    /\ last.input = [NoSettings EXCEPT !.max_memories = Some(1)]
    /\ last.res.ok
    /\ last.res.val.extraction_model = Some("gpt")
    /\ last.res.val.similarity_threshold = 50
    /\ ~last.res.val.auto_extract_enabled
    /\ last.res.val.max_memories = 1
    /\ last.res.val.updated_at > last.res.val.created_at

\* the rows of the workspace that satisfy the type and pinned filters
Satisfying(m, filters) ==
    {r \in OwnRows(m) :
        /\ filters.memory_type = Some("pinned") => memories[r].is_pinned = 1
        /\ (filters.memory_type # None /\ filters.memory_type # Some("pinned")) =>
              memories[r].type = Unwrap(filters.memory_type)
        /\ filters.is_pinned # None =>
              (memories[r].is_pinned = 1) = Unwrap(filters.is_pinned)}

Max(a, b) == IF a >= b THEN a ELSE b

C20_PinnedPseudoType ==
    (last # Idle /\ last.op = "list_memories"
        /\ last.filters = [NoFilters EXCEPT !.memory_type = Some("pinned")]) =>
        LET pinned == {r \in OwnRows(last.mgr) : memories[r].is_pinned = 1}
        IN /\ last.res.ok
           /\ Returned(last) = {row_to_memory(memories[r]) : r \in pinned}
           /\ Len(last.res.val.memories) = Cardinality(pinned)
           /\ last.res.val.total = Cardinality(pinned)
           /\ \A x \in Returned(last) : x.is_pinned

\* pinned memories of two types came back, an unpinned one did not
C20_Witness ==
    /\ last # Idle
    /\ last.op = "list_memories"
    /\ last.filters.memory_type = Some("pinned")
    /\ \E x, y \in Returned(last) : x.memory_type # y.memory_type
    /\ \E r \in OwnRows(last.mgr) : memories[r].is_pinned = 0

\* the increment_access calls handler h has made for the id so far
AccessCalls(c, h, id) ==
    IF c[h].name # "get_relevant_memories" THEN 0
    ELSE Cardinality({i \in 1..(c[h].next - 1) : c[h].memories[i].memory.id = id})

\* C13: an increment_access on an existing memory raises access_count by 1
\* and sets last_accessed_at; access_count never decreases; however the calls
\* of the handlers interleave, access_count is the initial 0 plus the number
\* of increment_access calls made for the id
C13_IncrementAtomic ==
    [][/\ \A r \in DOMAIN memories :
             /\ r \in DOMAIN memories'
             /\ memories'[r].access_count >= memories[r].access_count
       /\ \A h \in Handlers :
             (pc[h] = "relevant_access" /\ cmd'[h].next = cmd[h].next + 1) =>
                 \A r \in RowsWhere(DB, M1, cmd[h].memories[cmd[h].next].memory.id) :
                     /\ memories'[r].access_count = memories[r].access_count + 1
                     /\ memories'[r].last_accessed_at = Some(clock)
       /\ \A r \in DOMAIN memories' :
             memories'[r].access_count =
                 SeqSum([i \in 1..2 |->
                           AccessCalls(cmd', IF i = 1 THEN "h1" ELSE "h2", memories'[r].id)])]_vars

\* both handlers have incremented the same memory: two calls, count 2; one
\* handler has answered and the other is still in its loop
C13_Witness ==
    /\ \E r \in DOMAIN memories :
          /\ memories[r].access_count = 2
          /\ AccessCalls(cmd, "h1", memories[r].id) = 1
          /\ AccessCalls(cmd, "h2", memories[r].id) = 1
    /\ \E h \in Handlers : pc[h] = "relevant_access"
    /\ \E h \in Handlers : pc[h] = "done" /\ cmd[h].result.ok


\* C21: create_memory with a memory_type outside auto, user, conversation
\* returns a failure and adds no row and no full-text entry; every stored
\* row has one of the three types
C21_InvalidTypeRejected ==
    [][/\ (Calls("create_memory")
             /\ UnwrapOr(last'.input.memory_type, "user") \notin MemoryTypes) =>
             /\ ~last'.res.ok
             /\ memories' = memories
             /\ memories_fts' = memories_fts
       /\ \A r \in DOMAIN memories' : memories'[r].type \in MemoryTypes]_vars

\* a create_memory of type "pinned" has failed on a store that holds a row
C21_Witness ==
    /\ last # Idle
    /\ last.op = "create_memory"
    /\ last.input.memory_type = Some("pinned")
    /\ ~last.res.ok
    /\ memories # <<>>
    /\ \A r \in DOMAIN memories : memories[r].id # last.id

\* C22: search_keyword, and search_hybrid when it falls back to it, given a
\* query the full-text engine rejects, returns an error and not a successful
\* search
C22_MalformedQueryIsError ==
    (last # Idle /\ last.op \in {"search_keyword", "search_hybrid"}
        /\ ~Fts5Accepts(last.query)) => ~last.res.ok

\* the index holds exactly one entry per row, with the row's text
FtsInSyncNext ==
    memories_fts' = SetToBag({FtsEntry(r, memories'[r]) : r \in DOMAIN memories'})

\* C27: when delete_memory(id) has run while a create_memory handler for the
\* id awaited the provider, the handler's store_embedding changes nothing and
\* the handler goes on; its re-fetch answers NOT_FOUND; an id whose row is
\* gone never has a row or a full-text entry again
C27_DeleteDuringCreate ==
    [][/\ \A h \in Handlers :
             /\ (pc[h] = "create_store" /\ pc'[h] # pc[h] /\ app.memory # None
                    /\ RowsWhere(DB, Unwrap(app.memory), cmd[h].memory_id) = {}) =>
                   /\ DBNext = DB
                   /\ pc'[h] = "refetch_lock"
             /\ (pc[h] = "create_refetch" /\ pc'[h] # pc[h] /\ app.memory # None
                    /\ RowsWhere(DB, Unwrap(app.memory), cmd[h].memory_id) = {}) =>
                   cmd'[h].result = Ok(ApiError("NOT_FOUND"))
             /\ (pc'[h] = "done" /\ cmd'[h].name = "delete_memory"
                    /\ cmd'[h].result = Ok(ApiSuccess(TRUE))) =>
                   \A r \in DOMAIN memories' : memories'[r].id # cmd'[h].request.id
       /\ \A r \in DOMAIN memories' :
             (\A q \in DOMAIN memories : memories[q].id # memories'[r].id) =>
                 memories'[r].id \notin issued
       /\ FtsInSyncNext]_vars

\* a create_memory command that obtained an embedding has answered NOT_FOUND,
\* a delete_memory command for its id having answered true
C27_Witness ==
    \E h, g \in Handlers :
        /\ pc[h] = "done" /\ cmd[h].name = "create_memory"
        /\ cmd[h].embedding # None
        /\ cmd[h].result = Ok(ApiError("NOT_FOUND"))
        /\ pc[g] = "done" /\ cmd[g].name = "delete_memory"
        /\ cmd[g].request.id = cmd[h].memory_id
        /\ cmd[g].result = Ok(ApiSuccess(TRUE))
        /\ memories = <<>> /\ memories_fts = EmptyBag

\* where a handler is inside create_embedding: waiting for the guard on
\* config, reading config, waiting for the provider
EmbeddingSites == {"embed_lock", "embed_config", "embed_send"}

\* C23: a handler of create_memory, search_memories, get_relevant_memories or
\* extract_memories that is inside create_embedding holds no guard on
\* AppState.memory, and none on config while the request is pending
C23_NoGuardAcrossEmbedding ==
    \A h \in Handlers :
        /\ pc[h] \in EmbeddingSites => app.held.memory # Some(h)
        /\ pc[h] = "embed_send" => app.held.config # Some(h)

\* while a create_memory handler waits for the provider, the other handler
\* holds the guard and is about to insert a row
C23_Witness ==
    \E h, g \in Handlers :
        /\ pc[h] = "embed_send" /\ cmd[h].name = "create_memory"
        /\ pc[g] = "extract_insert"
        /\ app.held.memory = Some(g)

\* the commands that insert a row and then ask for its embedding
InsertingCommands == {"create_memory", "extract_memories"}

\* the rows of table t with the id, without an embedding
Unembedded(t, id) == {r \in DOMAIN t : t[r].id = id /\ t[r].embedding = None}

\* C24: in create_memory and extract_memories the row is inserted in the
\* step that leads to the embedding request, and stays without an embedding
\* while the request is pending; store_embedding is called only for an id
\* that was inserted; a cancellation at the await changes nothing in the
\* store, and no step of these commands removes a row
C24_RowBeforeEmbedding ==
    [][/\ \A h \in Handlers :
             /\ (cmd'[h].name \in InsertingCommands /\ pc'[h] \in EmbeddingSites) =>
                   /\ Unembedded(memories', cmd'[h].memory_id) # {}
                   /\ cmd'[h].memory_id \in issued'
             /\ (cmd'[h].name \in InsertingCommands /\ pc'[h] = "embed_lock"
                    /\ pc[h] # "embed_lock") =>
                   /\ cmd'[h].memory_id \notin issued
                   /\ \A r \in DOMAIN memories : memories[r].id # cmd'[h].memory_id
             /\ pc'[h] \in {"store_lock", "create_store", "extract_store_lock",
                            "extract_store"} =>
                   cmd'[h].memory_id \in issued
             /\ (pc[h] = "embed_send" /\ pc'[h] = "idle") =>
                   /\ DBNext = DB
                   /\ cmd[h].name \in InsertingCommands =>
                         Unembedded(memories', cmd[h].memory_id) # {}
       /\ \A r \in DOMAIN memories :
             r \in DOMAIN memories' /\ memories'[r].id = memories[r].id]_vars

\* an extract_memories handler waits for the provider, its row stored
\* without an embedding, beside a row without an embedding whose command
\* is no longer under way
C24_Witness ==
    \E h, g \in Handlers :
        /\ pc[h] = "embed_send" /\ cmd[h].name = "extract_memories"
        /\ Unembedded(memories, cmd[h].memory_id) # {}
        /\ pc[g] = "idle"
        /\ \E r \in DOMAIN memories :
              memories[r].id # cmd[h].memory_id /\ memories[r].embedding = None

\* the ids of the memories in a list of search results
FoundIds(found) == {found[i].memory.id : i \in DOMAIN found}

\* C30: the step in which a successful get_relevant_memories searches and
\* loops raises access_count by 1 for each memory it returns and leaves the
\* other memories as they were; its other steps and every step of a
\* search_memories command leave table memories unchanged
C30_RelevantCountsAccess ==
    [][\A h \in Handlers :
          /\ (pc[h] = "relevant_run" /\ pc'[h] = "done" /\ cmd'[h].result.ok) =>
                LET found == Unwrap(cmd'[h].result.val.data)
                IN /\ Len(found) = Cardinality(FoundIds(found))
                   /\ DOMAIN memories' = DOMAIN memories
                   /\ \A id \in FoundIds(found) :
                         \E r \in DOMAIN memories : memories[r].id = id
                   /\ \A r \in DOMAIN memories :
                         IF memories[r].id \in FoundIds(found)
                         THEN /\ memories'[r].access_count = memories[r].access_count + 1
                              /\ memories'[r].last_accessed_at = Some(clock)
                         ELSE memories'[r] = memories[r]
          /\ (cmd[h].name = "get_relevant_memories" /\ pc'[h] # pc[h]
                 /\ pc[h] # "relevant_run") => memories' = memories
          /\ (cmd[h].name = "search_memories" /\ pc'[h] # pc[h]) =>
                memories' = memories]_vars

\* a get_relevant_memories command returned one of two memories, for the
\* second time, and a search_memories command has answered with it
C30_Witness ==
    \E h, g \in Handlers :
        /\ pc[h] = "done" /\ cmd[h].name = "get_relevant_memories"
        /\ cmd[h].result.ok
        /\ Len(Unwrap(cmd[h].result.val.data)) = 1
        /\ \E r, q \in DOMAIN memories :
              /\ memories[r].id \in FoundIds(Unwrap(cmd[h].result.val.data))
              /\ memories[r].access_count = 2
              /\ memories[q].access_count = 0
        /\ pc[g] = "done" /\ cmd[g].name = "search_memories"
        /\ cmd[g].result.ok
        /\ Unwrap(cmd[g].result.val.data).count = 1

\* where a handler is while it holds the guard on AppState.memory
MemorySections == {MemoryLockSites[p] : p \in DOMAIN MemoryLockSites} \cup
                  {"goi_config", "goi_init", "update_write", "settings_write"}

\* C25: a handler is inside a store operation only as the holder of the
\* guard, which it keeps from the read to the write of update_memory and
\* update_settings; the write of either is the whole operation applied to
\* the store as it is then, so the fields the input does not name keep what
\* other handlers wrote, and the answer is the row as written
C25_UpdatesSerialized ==
    [][\A h \in Handlers :
          /\ pc'[h] \in MemorySections => app'.held.memory = Some(h)
          /\ (pc[h] = "update_write" /\ pc'[h] # pc[h] /\ app.memory # None) =>
                LET m == Unwrap(app.memory)
                    input == cmd[h].request.input
                    r == update_memory(DB, m, cmd[h].request.id, input, clock)
                IN /\ DBNext = r.db
                   /\ cmd'[h].result = Ok(ApiSuccess(r.res.val))
                   /\ \A x \in RowsWhere(DB, m, cmd[h].request.id) :
                         /\ input.content = None => memories'[x].content = memories[x].content
                         /\ input.importance = None =>
                               memories'[x].importance = memories[x].importance
                         /\ input.summary = None => memories'[x].summary = memories[x].summary
                         /\ input.is_pinned = None =>
                               memories'[x].is_pinned = memories[x].is_pinned
                         /\ input.content # None =>
                               memories'[x].content = Unwrap(input.content)
                         /\ input.importance # None =>
                               memories'[x].importance = Unwrap(input.importance)
                         /\ cmd'[h].result.val.data = Some(row_to_memory(memories'[x]))
          /\ (pc[h] = "settings_write" /\ pc'[h] # pc[h] /\ app.memory # None) =>
                LET m == Unwrap(app.memory)
                    input == cmd[h].request
                    r == update_settings(DB, m, input, clock)
                    old == memory_settings[m.workspace_id]
                    new == memory_settings'[m.workspace_id]
                IN /\ DBNext = r.db
                   /\ cmd'[h].result = Ok(ApiSuccess(r.res.val))
                   /\ input.max_memories = None => new.max_memories = old.max_memories
                   /\ input.extraction_model = None =>
                         new.extraction_model = old.extraction_model
                   /\ input.similarity_threshold = None =>
                         new.similarity_threshold = old.similarity_threshold
                   /\ input.max_memories # None =>
                         new.max_memories = Unwrap(input.max_memories)
                   /\ input.extraction_model # None =>
                         new.extraction_model = input.extraction_model]_vars

\* both handlers have updated the same memory, one its importance and the
\* other its content, and the row holds both; the settings row holds the
\* values of two updates as well
C25_Witness ==
    /\ \A h \in Handlers :
          /\ pc[h] = "done" /\ cmd[h].name = "update_memory"
          /\ cmd[h].request.id = 1
          /\ cmd[h].result.ok /\ cmd[h].result.val.ok
    /\ cmd["h1"].request.input # cmd["h2"].request.input
    /\ \E r \in DOMAIN memories :
          /\ memories[r].id = 1
          /\ memories[r].importance = 9
          /\ memories[r].content = <<"delta">>
    /\ memory_settings["w1"].max_memories = 1
    /\ memory_settings["w1"].extraction_model = Some("gpt")

\* where a handler runs an operation of the manager in AppState.memory
StoreSections == {"create_insert", "create_store", "create_refetch", "get_run",
                  "update_read", "delete_run", "settings_read", "search_run",
                  "relevant_threshold", "relevant_run", "extract_insert",
                  "extract_store"}

SetWorkspaceUnderWay ==
    \E h \in Handlers : cmd[h].name = "set_workspace" /\ pc[h] # "done"

\* C26: the manager a memory command uses is the one MemoryManager::new
\* builds for the workspace root that the configuration holds, no
\* set_workspace being under way
C26_ManagerFollowsWorkspace ==
    \A h \in Handlers :
        (pc[h] \in StoreSections /\ app.memory # None /\ ~SetWorkspaceUnderWay) =>
            Unwrap(app.memory) = ManagerFor(app.config.workspace_root)

\* the mutexes whose guard a handler holds
HeldBy(h) == {x \in {"memory", "config", "trash"} : app.held[x] = Some(h)}

\* where a handler waits in Mutex::lock
LockSites == DOMAIN MemoryLockSites \cup DOMAIN ConfigLockSites \cup DOMAIN TrashLockSites

IdScores(results) == [i \in DOMAIN results |-> <<results[i].memory.id, results[i].score>>]

\* C29: update_memory leaves the embedding and embedding_model of every row
\* as they were, so search_semantic returns the same memories with the same
\* scores, those of the stored vectors, after the update as before it
C29_UpdateKeepsEmbedding ==
    [][Calls("update_memory") =>
          /\ DOMAIN memories' = DOMAIN memories
          /\ \A r \in DOMAIN memories :
                /\ memories'[r].embedding = memories[r].embedding
                /\ memories'[r].embedding_model = memories[r].embedding_model
          /\ \A q \in QueryEmbeddings, threshold \in SearchThresholds :
                \A order \in Orderings(SemanticRows(DB, last'.mgr)) :
                    IdScores(search_semantic(DBNext, last'.mgr, q, MaxSearchRows,
                                             threshold, order).val)
                      = IdScores(search_semantic(DB, last'.mgr, q, MaxSearchRows,
                                                 threshold, order).val)]_vars

\* update_memory has replaced the content of a memory that has a stored
\* vector which search_semantic scores above zero
C29_Witness ==
    /\ last # Idle
    /\ last.op = "update_memory"
    /\ last.input.content = Some(<<"delta">>)
    /\ last.res.ok
    /\ last.res.val.content = <<"delta">>
    /\ \E r \in SemanticRows(DB, last.mgr) :
          /\ memories[r].id = last.id
          /\ bytes_to_f32_vec(Unwrap(memories[r].embedding)) = <<3, 4>>
          /\ \E q \in QueryEmbeddings :
                cosine_similarity(q, bytes_to_f32_vec(Unwrap(memories[r].embedding))) > 0

====
